---- MODULE Spec2Model ----
(***************************************************************************)
(* RPC-iFrame: the RPC correlation engine.                                 *)
(*                                                                         *)
(*   protocol.ts   the five wire messages, isProtocolMessage, generateId   *)
(*   transport.ts  Transport (origin + brand filter, multicast), and the   *)
(*                 parent side: IframeConnection (handshake, proxy calls,  *)
(*                 pending-call map, timers, destroy)                      *)
(*   child.ts      IframeExposed (handshake echo, request dispatch)        *)
(*                                                                         *)
(* JavaScript values are records of strings.  A promise is its state, its  *)
(* value and the number of times its resolve/reject functions were called  *)
(* (a promise keeps the first settlement, later calls are no-ops).  A      *)
(* timer is "armed" until it fires or is cleared; an armed timer may fire  *)
(* at any moment, so durations only appear in the error texts.             *)
(***************************************************************************)
EXTENDS Integers, Sequences, FiniteSets, Bags, TLC

(* ------------------------------ bounds -------------------------------- *)

\* Calls made through one connection's proxy.
MaxCalls == 2
\* "load" events the iframe fires after connect() registered its listener.
MaxLoads == 1
\* Requests and handshake requests one exposure handles.
MaxRequests == 2
\* Calls the subscribers of a Transport used on its own receive.
MaxReceived == 4

(* ------------------------- program constants -------------------------- *)

IFC_BRAND == "__ifc__"
DefaultHandshakeTimeout == 5000
DefaultCallTimeout == 10000

(* --------------------------- the environment -------------------------- *)

Undefined == "undefined"
Wildcard == "*"
ChildOrigin == "https://child.example.com"
ParentOrigin == "https://parent.example.com"
OtherOrigin == "https://evil.example.com"
Origins == {ChildOrigin, ParentOrigin, OtherOrigin}

\* The connections a host context may hold.
Conns == {"A", "B"}

\* Property names read from the proxy; SymbolProp stands for a symbol key.
SymbolProp == "Symbol()"
Methods == {"add"}
Props == Methods \cup {SymbolProp}

Num(n) == [num |-> n]
Str(s) == [str |-> s]
JsUndefined == [undefined |-> TRUE]

ArgsOf(method) ==
    CASE method = "add" -> <<Num(2), Num(3)>>
      [] method = "greet" -> <<Str("World")>>
      [] method = "calculate" -> <<Str("2 + 2 * 3")>>
      [] OTHER -> <<>>

Results == {Num(5), Str("Hello, World!")}
ErrorTexts == {"boom"}

\* ConnectOptions handed to connect(): an absent timeout is <<>>.
ConnectOptionsSet ==
    { [targetOrigin |-> ChildOrigin, handshakeTimeout |-> <<>>, callTimeout |-> <<>>],
      [targetOrigin |-> Wildcard, handshakeTimeout |-> <<100>>, callTimeout |-> <<50>>] }

VARIABLES
    conn,       \* conn[c]: the state of connection c (see IdleConn)
    active,     \* the connections this host context creates
    nextId,     \* how many ids generateId() has handed out
    exposed,    \* the exposure of the embedded context (see NoExposed)
    exposedTwin, \* the exposure of a second run of the embedded context
    adapter,    \* a Transport used on its own, with recording subscribers
    lastEvent   \* history: the "message" event the last step delivered, if any

vars == <<conn, active, nextId, exposed, exposedTwin, adapter, lastEvent>>
hostVars == <<conn, active, nextId, adapter>>

(* ------------------------------ JS values ------------------------------ *)

JsNull == [jsPrimitive |-> "null"]
JsString(s) == [jsPrimitive |-> "string", value |-> s]

\* typeof v
TypeOf(v) ==
    IF "jsPrimitive" \in DOMAIN v
    THEN (IF v.jsPrimitive = "null" THEN "object" ELSE v.jsPrimitive)
    ELSE "object"

IsNull(v) == "jsPrimitive" \in DOMAIN v /\ v.jsPrimitive = "null"

\* v[f] for the string fields of a message, undefined when v has none
Get(v, f) ==
    IF "jsPrimitive" \notin DOMAIN v /\ f \in DOMAIN v THEN v[f] ELSE Undefined

\* v[f] for a field that carries any value (result, args)
GetValue(v, f) ==
    IF "jsPrimitive" \notin DOMAIN v /\ f \in DOMAIN v THEN v[f] ELSE JsUndefined

\* new Error(message)
NewError(message) == [error |-> message]

\* options.x with a destructuring default
OrDefault(opt, default) == IF opt = <<>> THEN default ELSE opt[1]

(* ----------------------------- protocol.ts ----------------------------- *)

\* a guard that accepts any object that has a marker
isProtocolMessageAnyMarker(data) ==
    /\ TypeOf(data) = "object"
    /\ ~IsNull(data)
    /\ Get(data, "__ifc") # Undefined

isProtocolMessage(data) ==
    /\ TypeOf(data) = "object"
    /\ ~IsNull(data)
    /\ Get(data, "__ifc") = IFC_BRAND

createHandshakeRequest(nonce) ==
    [__ifc |-> IFC_BRAND, type |-> "handshake-request", nonce |-> nonce]

\* a handshake response that does not echo the nonce
createHandshakeResponseNoEcho(nonce) ==
    [__ifc |-> IFC_BRAND, type |-> "handshake-response", nonce |-> ""]

createHandshakeResponse(nonce) ==
    [__ifc |-> IFC_BRAND, type |-> "handshake-response", nonce |-> nonce]

createRequest(id, method, args) ==
    [__ifc |-> IFC_BRAND, type |-> "request", id |-> id, method |-> method, args |-> args]

createResponse(id, result) ==
    [__ifc |-> IFC_BRAND, type |-> "response", id |-> id, result |-> result]

\* an error message that carries the text as its result
createErrorAsResult(id, error) ==
    [__ifc |-> IFC_BRAND, type |-> "error", id |-> id, result |-> error]

createError(id, error) ==
    [__ifc |-> IFC_BRAND, type |-> "error", id |-> id, error |-> error]

\* generateId(): the n-th id handed out.  crypto.randomUUID() never repeats.
generateId(n) == "id-" \o ToString(n)

(* ------------------------------ JS Map / Set --------------------------- *)

\* A Map is its entries in insertion order, keys unique.
MapHas(m, k) == \E i \in 1..Len(m) : m[i].key = k
MapGet(m, k) == m[CHOOSE i \in 1..Len(m) : m[i].key = k].value
MapDelete(m, k) == SelectSeq(m, LAMBDA e : e.key # k)
MapSet(m, k, v) ==
    IF MapHas(m, k)
    THEN [i \in 1..Len(m) |-> IF m[i].key = k THEN [key |-> k, value |-> v] ELSE m[i]]
    ELSE Append(m, [key |-> k, value |-> v])

\* A Set is its members in insertion order.
SetHas(s, x) == \E i \in 1..Len(s) : s[i] = x
SetAdd(s, x) == IF SetHas(s, x) THEN s ELSE Append(s, x)
SetDelete(s, x) == SelectSeq(s, LAMBDA e : e # x)

(* ------------------------------- timers -------------------------------- *)

clearTimeout(timer) == IF timer = "armed" THEN "cleared" ELSE timer

(* --------------------------- transport.ts: Transport ------------------- *)

\* posted: the bag of (message, targetOrigin) pairs handed to target.postMessage
\* delivered: history, the posted pairs the platform has taken to the target
NoTransport ==
    [targetOrigin |-> Undefined, listening |-> FALSE, callbacks |-> <<>>,
     posted |-> EmptyBag, delivered |-> EmptyBag]

\* constructor: window.addEventListener("message", handleMessage)
NewTransport(targetOrigin) ==
    [targetOrigin |-> targetOrigin, listening |-> TRUE, callbacks |-> <<>>,
     posted |-> EmptyBag, delivered |-> EmptyBag]

\* a send that posts to any origin
TransportSendWildcard(t, message) ==
    [t EXCEPT !.posted =
        @ (+) SetToBag({[message |-> message, targetOrigin |-> Wildcard]})]

\* send(message): target.postMessage(message, targetOrigin)
TransportSend(t, message) ==
    [t EXCEPT !.posted =
        @ (+) SetToBag({[message |-> message, targetOrigin |-> t.targetOrigin]})]

\* onMessage(callback)
TransportOnMessage(t, callback) == [t EXCEPT !.callbacks = SetAdd(@, callback)]

\* an unsubscribe function that clears the whole set
TransportUnsubscribeAll(t, callback) == [t EXCEPT !.callbacks = <<>>]

\* the function onMessage returns
TransportUnsubscribe(t, callback) == [t EXCEPT !.callbacks = SetDelete(@, callback)]

\* a destroy() that clears the subscribers and leaves the window listener
TransportDestroyKeepsListener(t) == [t EXCEPT !.callbacks = <<>>]

\* destroy()
TransportDestroy(t) == [t EXCEPT !.listening = FALSE, !.callbacks = <<>>]

\* A Transport of its own, before construction.  received is the history of
\* what its subscribers were called with, issued the callbacks onMessage
\* returned an unsubscribe function for.
NoAdapter ==
    [transport |-> NoTransport, received |-> <<>>, issued |-> {},
     destroyed |-> FALSE]       \* history: destroy() was called

\* The two checks of Transport.handleMessage, origin first.
TransportAccepts(t, data, origin) ==
    /\ ~(t.targetOrigin # Wildcard /\ origin # t.targetOrigin)
    /\ isProtocolMessage(data)

(* ------------------------- parent: IframeConnection -------------------- *)

IdleConn ==
    [ connectState      |-> "idle",      \* the promise connect() returned
      connectValue      |-> JsUndefined,
      connectSettles    |-> 0,           \* calls of its resolve/reject
      handshakeTimeout  |-> 0,
      callTimeout       |-> 0,
      transport         |-> NoTransport,
      nonce             |-> Undefined,
      handshakeComplete |-> FALSE,
      handshakeTimer    |-> "none",
      loadListener      |-> FALSE,       \* iframe.addEventListener("load", ..)
      loadCount         |-> 0,
      instance          |-> FALSE,       \* new IframeConnection(..) ran
      pendingCalls      |-> <<>>,        \* Map id -> PendingCall
      calls             |-> <<>>,        \* the promises the proxy returned
      destroyed         |-> FALSE,       \* history: destroy() was called
      settleOrder       |-> <<>>,        \* history: calls in settlement order
      contentWindow     |-> "unknown",   \* history: what connect() was given
      options           |-> [targetOrigin |-> Undefined] ]

NewCall(id, method) ==
    [ id |-> id, method |-> method, state |-> "pending", value |-> JsUndefined,
      settles |-> 0, timer |-> "armed", settledBy |-> [by |-> "none"] ]

\* resolve(value) / reject(reason) of the promise of call k
SettlePromise(cs, k, state, value, by) ==
    LET call == cs.calls[k] IN
    IF call.state = "pending"
    THEN [cs EXCEPT !.calls[k].state = state,
                    !.calls[k].value = value,
                    !.calls[k].settles = @ + 1,
                    !.calls[k].settledBy = by,
                    !.settleOrder = Append(@, k)]
    ELSE [cs EXCEPT !.calls[k].settles = @ + 1]

PromiseResolve(cs, k, value, by) == SettlePromise(cs, k, "resolved", value, by)
PromiseReject(cs, k, reason, by) == SettlePromise(cs, k, "rejected", reason, by)

\* resolve / reject of the promise connect() returned
SettleConnect(cs, state, value) ==
    IF cs.connectState = "pending"
    THEN [cs EXCEPT !.connectState = state, !.connectValue = value,
                    !.connectSettles = @ + 1]
    ELSE [cs EXCEPT !.connectSettles = @ + 1]

ContentWindowNullError ==
    "iframe.contentWindow is null. Is the iframe attached to the DOM?"
HandshakeTimeoutError(ms) == "Handshake timed out after " \o ToString(ms) \o "ms."
CallTimeoutError(prop, ms) ==
    "Call to \"" \o prop \o "\" timed out after " \o ToString(ms) \o "ms."
DestroyedError == "Connection destroyed."

\* settlePendingCall that leaves the entry in the map
settlePendingCallKeepsEntry(cs, id) ==
    IF ~MapHas(cs.pendingCalls, id)
    THEN [found |-> FALSE, conn |-> cs]
    ELSE LET pending == MapGet(cs.pendingCalls, id) IN
         [ found   |-> TRUE,
           pending |-> pending,
           conn    |-> [cs EXCEPT !.calls[pending.timer].timer = clearTimeout(@)] ]

\* settlePendingCall that takes the oldest entry when the id is not a key
settlePendingCallAnyId(cs, id) ==
    IF cs.pendingCalls = <<>>
    THEN [found |-> FALSE, conn |-> cs]
    ELSE LET key == IF MapHas(cs.pendingCalls, id) THEN id ELSE cs.pendingCalls[1].key
             pending == MapGet(cs.pendingCalls, key)
         IN  [ found   |-> TRUE,
               pending |-> pending,
               conn    |-> [cs EXCEPT !.calls[pending.timer].timer = clearTimeout(@),
                                      !.pendingCalls = MapDelete(@, key)] ]

\* settlePendingCall that empties the map when it finds the id
settlePendingCallDropsAll(cs, id) ==
    IF ~MapHas(cs.pendingCalls, id)
    THEN [found |-> FALSE, conn |-> cs]
    ELSE LET pending == MapGet(cs.pendingCalls, id) IN
         [ found   |-> TRUE,
           pending |-> pending,
           conn    |-> [cs EXCEPT !.calls[pending.timer].timer = clearTimeout(@),
                                  !.pendingCalls = <<>>] ]

\* settlePendingCall(id): the PendingCall removed, or found = FALSE
settlePendingCall(cs, id) ==
    IF ~MapHas(cs.pendingCalls, id)
    THEN [found |-> FALSE, conn |-> cs]
    ELSE LET pending == MapGet(cs.pendingCalls, id) IN
         [ found   |-> TRUE,
           pending |-> pending,
           conn    |-> [cs EXCEPT !.calls[pending.timer].timer = clearTimeout(@),
                                  !.pendingCalls = MapDelete(@, id)] ]

\* handleMessage that resolves the call on an ErrorMessage too
ConnectionHandleMessageErrorResolves(cs, message) ==
    LET type == Get(message, "type")
        s == settlePendingCall(cs, Get(message, "id"))
    IN  CASE type = "response" ->
               IF s.found
               THEN PromiseResolve(s.conn, s.pending.resolve, GetValue(message, "result"),
                                   [by |-> "message", message |-> message])
               ELSE s.conn
          [] type = "error" ->
               IF s.found
               THEN PromiseResolve(s.conn, s.pending.resolve,
                                   NewError(Get(message, "error")),
                                   [by |-> "message", message |-> message])
               ELSE s.conn
          [] OTHER -> cs

\* IframeConnection.handleMessage
ConnectionHandleMessage(cs, message) ==
    LET type == Get(message, "type")
        s == settlePendingCall(cs, Get(message, "id"))
    IN  CASE type = "response" ->
               IF s.found
               THEN PromiseResolve(s.conn, s.pending.resolve, GetValue(message, "result"),
                                   [by |-> "message", message |-> message])
               ELSE s.conn
          [] type = "error" ->
               IF s.found
               THEN PromiseReject(s.conn, s.pending.reject,
                                  NewError(Get(message, "error")),
                                  [by |-> "message", message |-> message])
               ELSE s.conn
          [] OTHER -> cs

\* the constructor of IframeConnection
NewIframeConnection(cs) ==
    [cs EXCEPT !.instance = TRUE,
               !.transport = TransportOnMessage(@, "connection")]

\* a handshake listener that does not compare the nonce
HandshakeListenerAnyNonce(cs, message) ==
    IF /\ Get(message, "type") = "handshake-response"
       /\ ~cs.handshakeComplete
    THEN LET c1 == [cs EXCEPT !.handshakeComplete = TRUE,
                             !.handshakeTimer = clearTimeout(@),
                             !.transport = TransportUnsubscribe(@, "handshake")]
         IN  SettleConnect(NewIframeConnection(c1), "resolved", Str("IframeConnection"))
    ELSE cs

\* a handshake listener that does not cancel the handshake timer
HandshakeListenerKeepsTimer(cs, message) ==
    IF /\ Get(message, "type") = "handshake-response"
       /\ Get(message, "nonce") = cs.nonce
       /\ ~cs.handshakeComplete
    THEN LET c1 == [cs EXCEPT !.handshakeComplete = TRUE,
                             !.transport = TransportUnsubscribe(@, "handshake")]
         IN  SettleConnect(NewIframeConnection(c1), "resolved", Str("IframeConnection"))
    ELSE cs

\* the handshake listener of IframeConnection.connect
HandshakeListener(cs, message) ==
    IF /\ Get(message, "type") = "handshake-response"
       /\ Get(message, "nonce") = cs.nonce
       /\ ~cs.handshakeComplete
    THEN LET c1 == [cs EXCEPT !.handshakeComplete = TRUE,
                             !.handshakeTimer = clearTimeout(@),
                             !.transport = TransportUnsubscribe(@, "handshake")]
         IN  SettleConnect(NewIframeConnection(c1), "resolved", Str("IframeConnection"))
    ELSE cs

(* -------------------------- child: IframeExposed ----------------------- *)

\* A function value: what calling it does.  latency "task" is an operation
\* that finishes in a later task of the event loop; "microtask" is one whose
\* promise is already settled when dispatchRequest awaits it.
Fn(body, latency) == [typeof |-> "function", body |-> body, latency |-> latency]

\* The members every object inherits from Object.prototype.
ObjectPrototype ==
    [n \in {"constructor", "toString", "hasOwnProperty", "valueOf"} |->
        Fn("builtin", "microtask")]
    @@ ("__proto__" :> [typeof |-> "object", value |-> Str("Object.prototype")])

\* An object literal of async functions, with one data property.
LiteralApi ==
    [ own |-> [ add     |-> Fn("add", "microtask"),
                greet   |-> Fn("greet", "microtask"),
                slow    |-> Fn("slow", "task"),
                fail    |-> Fn("fail", "task"),
                oops    |-> Fn("oops", "microtask"),
                version |-> [typeof |-> "string", value |-> Str("1.0")] ],
      inherited |-> ObjectPrototype ]

\* new CalculatorAPI(): its methods live on the class prototype.
ClassApi ==
    [ own |-> [ precision |-> [typeof |-> "number", value |-> Num(2)] ],
      inherited |-> ("calculate" :> Fn("calculate", "microtask")) @@ ObjectPrototype ]

\* The exposure holds a reference to its api object: its name here.
ApiObjects == {"LiteralApi", "ClassApi"}
ApiObject(ref) == IF ref = "ClassApi" THEN ClassApi ELSE LiteralApi

\* method in api: true of inherited members too
HasOwnPropertyViaIn(api, method) ==
    method \in DOMAIN api.own \cup DOMAIN api.inherited

\* Object.prototype.hasOwnProperty.call(api, method)
HasOwnProperty(api, method) == method \in DOMAIN api.own

\* api[method]: own properties first, then the prototype chain
GetProperty(api, method) ==
    IF method \in DOMAIN api.own THEN api.own[method]
    ELSE IF method \in DOMAIN api.inherited THEN api.inherited[method]
    ELSE [typeof |-> "undefined", value |-> JsUndefined]

\* An Error as thrown: its message and its stack
ThrownError(message) ==
    [instanceofError |-> TRUE, message |-> message,
     stack |-> "Error: " \o message \o "\n    at api (child.js:1:1)"]
ThrownValue(text) == [instanceofError |-> FALSE, string |-> text]

\* fn.call(api, args): the function receives the array as its one argument
ApplyAsCall(fn, args) ==
    CASE fn.body = "add" /\ Len(args) = 2 ->
            [kind |-> "return", value |-> Str("2,3undefined")]
      [] fn.body = "greet" /\ Len(args) = 1 ->
            [kind |-> "return", value |-> Str("Hello, " \o args[1].str \o "!")]
      [] fn.body = "calculate" /\ Len(args) = 1 ->
            [kind |-> "return", value |-> Num(8)]
      [] fn.body = "slow" -> [kind |-> "return", value |-> Str("done")]
      [] fn.body = "fail" -> [kind |-> "throw", value |-> ThrownError("boom")]
      [] fn.body = "oops" -> [kind |-> "throw", value |-> ThrownValue("oops")]
      [] OTHER -> [kind |-> "return", value |-> JsUndefined]

\* fn.apply(api, args), awaited: how the call ends
Apply(fn, args) ==
    CASE fn.body = "add" /\ Len(args) = 2 ->
            [kind |-> "return", value |-> Num(args[1].num + args[2].num)]
      [] fn.body = "greet" /\ Len(args) = 1 ->
            [kind |-> "return", value |-> Str("Hello, " \o args[1].str \o "!")]
      [] fn.body = "calculate" /\ Len(args) = 1 ->
            [kind |-> "return", value |-> Num(8)]
      [] fn.body = "slow" -> [kind |-> "return", value |-> Str("done")]
      [] fn.body = "fail" -> [kind |-> "throw", value |-> ThrownError("boom")]
      [] fn.body = "oops" -> [kind |-> "throw", value |-> ThrownValue("oops")]
      [] OTHER -> [kind |-> "return", value |-> JsUndefined]

NoExposed ==
    [ state     |-> "none",       \* "none", "active" or "destroyed"
      api       |-> "LiteralApi",
      transport |-> NoTransport,
      handled   |-> 0,            \* history: requests and handshakes handled
      requests  |-> EmptyBag,     \* history: the [id, method] of the requests dispatched
      invoked   |-> <<>>,         \* history: the functions called, in order
      running   |-> EmptyBag,     \* dispatchRequest calls suspended at await
      options   |-> [allowedOrigin |-> Undefined] ]  \* history: as constructed

\* new IframeExposed(api, options)
NewIframeExposed(api, options) ==
    [ NoExposed EXCEPT
        !.state = "active",
        !.api = api,
        !.options = options,
        !.transport = TransportOnMessage(NewTransport(options.allowedOrigin), "exposed") ]

NotExposedError(method) == "Method \"" \o method \o "\" is not exposed."
NotAFunctionError(method) == "\"" \o method \o "\" is not a function."

\* an error text taken from the stack of an Error
ErrorMessageOfStack(err) == IF err.instanceofError THEN err.stack ELSE err.string

\* err instanceof Error ? err.message : String(err)
ErrorMessageOf(err) == IF err.instanceofError THEN err.message ELSE err.string

\* a catch block that answers with the error and stops listening
AfterAwaitStopsOnThrow(es, id, outcome) ==
    IF outcome.kind = "return"
    THEN [es EXCEPT !.transport = TransportSend(@, createResponse(id, outcome.value))]
    ELSE [es EXCEPT !.transport =
            TransportDestroy(
                TransportSend(@, createError(id, ErrorMessageOf(outcome.value))))]

\* dispatchRequest after its await: the try block's send, or the catch block
AfterAwait(es, id, outcome) ==
    IF outcome.kind = "return"
    THEN [es EXCEPT !.transport = TransportSend(@, createResponse(id, outcome.value))]
    ELSE [es EXCEPT !.transport =
            TransportSend(@, createError(id, ErrorMessageOf(outcome.value)))]

\* a dispatchRequest whose not-exposed branch lacks its return and falls
\* through to the lookup
dispatchRequestNoReturn(es, id, method, args) ==
    LET e0 == IF ~HasOwnProperty(ApiObject(es.api), method)
              THEN [es EXCEPT !.transport =
                        TransportSend(@, createError(id, NotExposedError(method)))]
              ELSE es
        fn == GetProperty(ApiObject(es.api), method)
    IN  IF fn.typeof # "function"
        THEN [e0 EXCEPT !.transport =
                   TransportSend(@, createError(id, NotAFunctionError(method)))]
        ELSE LET e1 == [e0 EXCEPT !.invoked =
                           Append(@, [id |-> id, method |-> method,
                                      args |-> args, this |-> es.api])]
                 outcome == Apply(fn, args)
             IN  IF fn.latency = "task"
                 THEN [e1 EXCEPT !.running =
                           @ (+) SetToBag({[id |-> id, outcome |-> outcome]})]
                 ELSE AfterAwait(e1, id, outcome)

\* a dispatchRequest without the typeof check: fn.apply of a value that is
\* not a function throws a TypeError inside the try block
dispatchRequestNoTypeofCheck(es, id, method, args) ==
    IF ~HasOwnProperty(ApiObject(es.api), method)
    THEN [es EXCEPT !.transport = TransportSend(@, createError(id, NotExposedError(method)))]
    ELSE LET fn == GetProperty(ApiObject(es.api), method) IN
         IF fn.typeof # "function"
         THEN AfterAwait(es, id, [kind |-> "throw",
                                  value |-> ThrownError("fn.apply is not a function")])
         ELSE LET e1 == [es EXCEPT !.invoked =
                            Append(@, [id |-> id, method |-> method,
                                        args |-> args, this |-> es.api])]
                  outcome == Apply(fn, args)
              IN  IF fn.latency = "task"
                  THEN [e1 EXCEPT !.running =
                            @ (+) SetToBag({[id |-> id, outcome |-> outcome]})]
                  ELSE AfterAwait(e1, id, outcome)

\* IframeExposed.dispatchRequest, up to the point where it suspends
dispatchRequest(es, id, method, args) ==
    IF ~HasOwnProperty(ApiObject(es.api), method)
    THEN [es EXCEPT !.transport = TransportSend(@, createError(id, NotExposedError(method)))]
    ELSE LET fn == GetProperty(ApiObject(es.api), method) IN
         IF fn.typeof # "function"
         THEN [es EXCEPT !.transport =
                    TransportSend(@, createError(id, NotAFunctionError(method)))]
         ELSE LET e1 == [es EXCEPT !.invoked =
                            Append(@, [id |-> id, method |-> method,
                                        args |-> args, this |-> es.api])]
                  outcome == Apply(fn, args)
              IN  IF fn.latency = "task"
                  THEN [e1 EXCEPT !.running =
                            @ (+) SetToBag({[id |-> id, outcome |-> outcome]})]
                  ELSE AfterAwait(e1, id, outcome)

\* a handleMessage that remembers the handshake and answers only the first
ExposedHandleMessageOnce(es, message) ==
    LET type == Get(message, "type")
        answered == \E p \in BagToSet(es.transport.posted) :
                        p.message.type = "handshake-response"
    IN
    CASE type = "handshake-request" ->
            [es EXCEPT !.transport =
                IF answered THEN @
                ELSE TransportSend(@, createHandshakeResponse(Get(message, "nonce"))),
                       !.handled = @ + 1]
      [] type = "request" ->
            [dispatchRequest(es, Get(message, "id"), Get(message, "method"),
                             GetValue(message, "args"))
                EXCEPT !.handled = @ + 1,
                       !.requests = @ (+) SetToBag({[id |-> Get(message, "id"),
                                                     method |-> Get(message, "method")]})]
      [] OTHER -> es

\* IframeExposed.handleMessage
ExposedHandleMessage(es, message) ==
    LET type == Get(message, "type") IN
    CASE type = "handshake-request" ->
            [es EXCEPT !.transport =
                TransportSend(@, createHandshakeResponse(Get(message, "nonce"))),
                       !.handled = @ + 1]
      [] type = "request" ->
            [dispatchRequest(es, Get(message, "id"), Get(message, "method"),
                             GetValue(message, "args"))
                EXCEPT !.handled = @ + 1,
                       !.requests = @ (+) SetToBag({[id |-> Get(message, "id"),
                                                     method |-> Get(message, "method")]})]
      [] OTHER -> es

\* a destroy that leaves the subscription and the window listener in place
ExposedDestroyStateOnly(es) == [es EXCEPT !.state = "destroyed"]

\* IframeExposed.destroy
ExposedDestroy(es) ==
    [es EXCEPT !.state = "destroyed",
               !.transport = TransportDestroy(TransportUnsubscribe(@, "exposed"))]

\* a resumption that answers under the id of another suspended dispatch
OperationSettlesOtherId(es, op) ==
    LET others == {o \in BagToSet(es.running) : o.id # op.id}
        id == IF others = {} THEN op.id ELSE (CHOOSE o \in others : TRUE).id
    IN  AfterAwait([es EXCEPT !.running = @ (-) SetToBag({op})], id, op.outcome)

\* an operation that was awaited finishes
OperationSettles(es, op) ==
    AfterAwait([es EXCEPT !.running = @ (-) SetToBag({op})], op.id, op.outcome)

(* ------------------------ Transport.handleMessage ---------------------- *)

\* the callbacks registered with onMessage
RunCallback(cs, callback, message, origin) ==
    CASE callback = "handshake" -> HandshakeListener(cs, message)
      [] callback = "connection" -> ConnectionHandleMessage(cs, message)
      [] callback = "exposed" -> ExposedHandleMessage(cs, message)
      [] OTHER -> [cs EXCEPT !.received =
                        Append(@, [callback |-> callback, message |-> message,
                                   origin |-> origin])]

\* for (const cb of this.callbacks) cb(event.data, event.origin): a Set is
\* iterated live, so a callback added meanwhile is visited and one removed is not.
\* a dispatch that hands the message to the first subscriber only
DispatchCallbacksFirstOnly(cs, visited, message, origin) ==
    IF cs.transport.callbacks = <<>>
    THEN cs
    ELSE RunCallback(cs, Head(cs.transport.callbacks), message, origin)

RECURSIVE DispatchCallbacks(_, _, _, _)
DispatchCallbacks(cs, visited, message, origin) ==
    LET left == SelectSeq(cs.transport.callbacks, LAMBDA cb : cb \notin visited) IN
    IF left = <<>>
    THEN cs
    ELSE DispatchCallbacks(RunCallback(cs, Head(left), message, origin),
                           visited \cup {Head(left)}, message, origin)

\* a handleMessage without the brand check
TransportHandleMessageNoBrandCheck(cs, data, origin) ==
    IF cs.transport.targetOrigin # Wildcard /\ origin # cs.transport.targetOrigin
    THEN cs
    ELSE DispatchCallbacks(cs, {}, data, origin)

\* a handleMessage without the origin check
TransportHandleMessageAnyOrigin(cs, data, origin) ==
    IF ~isProtocolMessage(data)
    THEN cs
    ELSE DispatchCallbacks(cs, {}, data, origin)

\* Transport.handleMessage, for the window listener of the owner cs
TransportHandleMessage(cs, data, origin) ==
    IF cs.transport.targetOrigin # Wildcard /\ origin # cs.transport.targetOrigin
    THEN cs
    ELSE IF ~isProtocolMessage(data)
    THEN cs
    ELSE DispatchCallbacks(cs, {}, data, origin)

\* a promise executor that rejects on a null contentWindow and goes on
ConnectExecutorNoReturn(cs, contentWindow, options, nonce) ==
    LET c0 == [cs EXCEPT
                !.connectState = "pending",
                !.contentWindow = IF contentWindow THEN "window" ELSE "null",
                !.options = options]
        c1 == IF contentWindow THEN c0
              ELSE SettleConnect(c0, "rejected", NewError(ContentWindowNullError))
    IN  [c1 EXCEPT
            !.handshakeTimeout = OrDefault(options.handshakeTimeout, DefaultHandshakeTimeout),
            !.callTimeout = OrDefault(options.callTimeout, DefaultCallTimeout),
            !.transport = TransportOnMessage(NewTransport(options.targetOrigin), "handshake"),
            !.nonce = nonce,
            !.handshakeComplete = FALSE,
            !.handshakeTimer = "armed",
            !.loadListener = TRUE]

\* a promise executor that posts the HandshakeRequest itself, without
\* waiting for "load"
ConnectExecutorSendsAtOnce(cs, contentWindow, options, nonce) ==
    IF ~contentWindow
    THEN SettleConnect([cs EXCEPT !.connectState = "pending",
                                  !.contentWindow = "null",
                                  !.options = options],
                       "rejected", NewError(ContentWindowNullError))
    ELSE [cs EXCEPT
            !.connectState = "pending",
            !.contentWindow = "window",
            !.options = options,
            !.handshakeTimeout = OrDefault(options.handshakeTimeout, DefaultHandshakeTimeout),
            !.callTimeout = OrDefault(options.callTimeout, DefaultCallTimeout),
            !.transport = TransportSend(
                TransportOnMessage(NewTransport(options.targetOrigin), "handshake"),
                createHandshakeRequest(nonce)),
            !.nonce = nonce,
            !.handshakeComplete = FALSE,
            !.handshakeTimer = "armed",
            !.loadListener = TRUE]

\* the body of IframeConnection.connect's promise executor
ConnectExecutor(cs, contentWindow, options, nonce) ==
    IF ~contentWindow
    THEN SettleConnect([cs EXCEPT !.connectState = "pending",
                                  !.contentWindow = "null",
                                  !.options = options],
                       "rejected", NewError(ContentWindowNullError))
    ELSE [cs EXCEPT
            !.connectState = "pending",
            !.contentWindow = "window",
            !.options = options,
            !.handshakeTimeout = OrDefault(options.handshakeTimeout, DefaultHandshakeTimeout),
            !.callTimeout = OrDefault(options.callTimeout, DefaultCallTimeout),
            !.transport = TransportOnMessage(NewTransport(options.targetOrigin), "handshake"),
            !.nonce = nonce,
            !.handshakeComplete = FALSE,
            !.handshakeTimer = "armed",
            !.loadListener = TRUE]

\* a handshakeTimer callback that rejects and leaves the transport alive
HandshakeTimerCallbackKeepsTransport(cs) ==
    LET c0 == [cs EXCEPT !.handshakeTimer = "fired"] IN
    IF ~c0.handshakeComplete
    THEN SettleConnect(c0, "rejected", NewError(HandshakeTimeoutError(c0.handshakeTimeout)))
    ELSE c0

\* a handshakeTimer callback that tears the transport down and rejects nothing
HandshakeTimerCallbackNoReject(cs) ==
    LET c0 == [cs EXCEPT !.handshakeTimer = "fired"] IN
    IF ~c0.handshakeComplete
    THEN [c0 EXCEPT !.transport =
            TransportDestroy(TransportUnsubscribe(@, "handshake"))]
    ELSE c0

\* the callback of handshakeTimer
HandshakeTimerCallback(cs) ==
    LET c0 == [cs EXCEPT !.handshakeTimer = "fired"] IN
    IF ~c0.handshakeComplete
    THEN SettleConnect(
            [c0 EXCEPT !.transport =
                TransportDestroy(TransportUnsubscribe(@, "handshake"))],
            "rejected", NewError(HandshakeTimeoutError(c0.handshakeTimeout)))
    ELSE c0

\* the "load" listener
LoadListener(cs) ==
    [cs EXCEPT !.transport = TransportSend(@, createHandshakeRequest(cs.nonce)),
               !.loadCount = @ + 1]

\* a proxy whose pending entries all hold the first call's resolve and reject
ProxyCallSharedResolver(cs, prop, args, id) ==
    LET k == Len(cs.calls) + 1 IN
    [cs EXCEPT !.calls = Append(@, NewCall(id, prop)),
               !.pendingCalls = MapSet(@, id, [resolve |-> 1, reject |-> 1, timer |-> k]),
               !.transport = TransportSend(@, createRequest(id, prop, args))]

\* remote[prop](...args): the promise executor of createProxy
ProxyCall(cs, prop, args, id) ==
    LET k == Len(cs.calls) + 1 IN
    [cs EXCEPT !.calls = Append(@, NewCall(id, prop)),
               !.pendingCalls = MapSet(@, id, [resolve |-> k, reject |-> k, timer |-> k]),
               !.transport = TransportSend(@, createRequest(id, prop, args))]

\* a timer callback that rejects and leaves the entry in the map
CallTimerCallbackKeepsEntry(cs, k) ==
    LET call == cs.calls[k]
        c0 == [cs EXCEPT !.calls[k].timer = "fired"]
    IN  PromiseReject(c0, k, NewError(CallTimeoutError(call.method, cs.callTimeout)),
                      [by |-> "timer"])

\* the callback of a call's timer
CallTimerCallback(cs, k) ==
    LET call == cs.calls[k]
        c0 == [cs EXCEPT !.calls[k].timer = "fired",
                         !.pendingCalls = MapDelete(@, call.id)]
    IN  PromiseReject(c0, k, NewError(CallTimeoutError(call.method, cs.callTimeout)),
                      [by |-> "timer"])

\* a destroy loop that rejects without clearing the timers
RECURSIVE RejectAllPendingKeepsTimers(_, _)
RejectAllPendingKeepsTimers(cs, entries) ==
    IF entries = <<>>
    THEN cs
    ELSE RejectAllPendingKeepsTimers(
            PromiseReject(cs, Head(entries).value.reject, NewError(DestroyedError),
                          [by |-> "destroy"]),
            Tail(entries))

\* a destroy loop that clears the timers and rejects nothing
RECURSIVE RejectAllPendingClearsOnly(_, _)
RejectAllPendingClearsOnly(cs, entries) ==
    IF entries = <<>>
    THEN cs
    ELSE RejectAllPendingClearsOnly(
            [cs EXCEPT !.calls[Head(entries).value.timer].timer = clearTimeout(@)],
            Tail(entries))

\* the loop of destroy() over the entries of pendingCalls
RECURSIVE RejectAllPending(_, _)
RejectAllPending(cs, entries) ==
    IF entries = <<>>
    THEN cs
    ELSE LET pending == Head(entries).value
             c0 == [cs EXCEPT !.calls[pending.timer].timer = clearTimeout(@)]
         IN  RejectAllPending(
                PromiseReject(c0, pending.reject, NewError(DestroyedError),
                              [by |-> "destroy"]),
                Tail(entries))

\* a destroy that leaves the subscription and the window listener in place
ConnectionDestroyKeepsListener(cs) ==
    LET c0 == RejectAllPending(cs, cs.pendingCalls) IN
    [c0 EXCEPT !.pendingCalls = <<>>, !.destroyed = TRUE]

\* a destroy that rejects the pending calls and leaves their entries in the map
ConnectionDestroyKeepsEntries(cs) ==
    LET c0 == RejectAllPending(cs, cs.pendingCalls) IN
    [c0 EXCEPT !.transport = TransportDestroy(TransportUnsubscribe(@, "connection")),
               !.destroyed = TRUE]

\* IframeConnection.destroy
ConnectionDestroy(cs) ==
    LET c0 == RejectAllPending(cs, cs.pendingCalls) IN
    [c0 EXCEPT !.pendingCalls = <<>>,
               !.transport = TransportDestroy(TransportUnsubscribe(@, "connection")),
               !.destroyed = TRUE]

(* ------------------------------ the actions ---------------------------- *)

\* ids that may appear in an inbound message: the issued ones and one never
\* issued ("id-0")
WireIds == {generateId(n) : n \in 0..nextId}

ForeignData ==
    { JsNull, JsString("hello"),
      [type |-> "response", id |-> generateId(2), result |-> Num(5)],
      [__ifc |-> "other", type |-> "handshake-response", nonce |-> generateId(1)] }

InboundData ==
    {createHandshakeResponse(n) : n \in WireIds}
    \cup {createResponse(i, r) : i \in WireIds, r \in Results}
    \cup {createError(i, e) : i \in WireIds, e \in ErrorTexts}
    \cup {createHandshakeRequest(generateId(0)),
          createRequest(generateId(0), "add", ArgsOf("add"))}
    \cup ForeignData

InboundOrigins == {ChildOrigin, OtherOrigin}

\* history: the listener of cs ran its callbacks for this event
Delivered(cs, data, origin) ==
    cs.transport.listening /\ TransportAccepts(cs.transport, data, origin)

\* history: what the id or nonce of an inbound payload names when it arrives:
\* a call of a connection (still in its pending map, or not), the nonce of a
\* connection, or nothing
Names(data) ==
    LET id == Get(data, "id")
        nonce == Get(data, "nonce")
        callsNamed == {ck \in Conns \X (1..MaxCalls) :
                         /\ ck[2] <= Len(conn[ck[1]].calls)
                         /\ conn[ck[1]].calls[ck[2]].id = id}
        connsNamed == {c \in Conns : nonce # Undefined /\ conn[c].nonce = nonce}
    IN  IF callsNamed # {}
        THEN LET ck == CHOOSE x \in callsNamed : TRUE IN
             [kind |-> IF MapHas(conn[ck[1]].pendingCalls, id)
                       THEN "pending call" ELSE "settled call",
              conn |-> ck[1], call |-> ck[2]]
        ELSE IF connsNamed # {}
        THEN [kind |-> "nonce", conn |-> CHOOSE c \in connsNamed : TRUE]
        ELSE [kind |-> "nothing"]

\* IframeConnection.connect(iframe, options)
Connect(c, contentWindow, options) ==
    /\ c \in active
    /\ conn[c].connectState = "idle"
    /\ conn' = [conn EXCEPT ![c] =
                    ConnectExecutor(@, contentWindow, options, generateId(nextId + 1))]
    /\ nextId' = IF contentWindow THEN nextId + 1 ELSE nextId
    /\ lastEvent' = [op |-> "other"]
    /\ UNCHANGED <<active, exposed, exposedTwin, adapter>>

\* the iframe fires "load"
Load(c) ==
    /\ conn[c].loadListener
    /\ conn[c].loadCount < MaxLoads
    /\ conn' = [conn EXCEPT ![c] = LoadListener(@)]
    /\ lastEvent' = [op |-> "other"]
    /\ UNCHANGED <<active, nextId, exposed, exposedTwin, adapter>>

\* the handshake timer fires
HandshakeTimeout(c) ==
    /\ conn[c].handshakeTimer = "armed"
    /\ conn' = [conn EXCEPT ![c] = HandshakeTimerCallback(@)]
    /\ lastEvent' = [op |-> "other"]
    /\ UNCHANGED <<active, nextId, exposed, exposedTwin, adapter>>

\* the host window receives a "message" event: every registered window
\* listener (one per live Transport) handles it
Deliver(data, origin) ==
    /\ conn' = [c \in Conns |->
                    IF conn[c].transport.listening
                    THEN TransportHandleMessage(conn[c], data, origin)
                    ELSE conn[c]]
    /\ lastEvent' = [op |-> "message", to |-> "host", type |-> Get(data, "type"),
                     deliveredTo |-> {c \in Conns : Delivered(conn[c], data, origin)},
                     names |-> Names(data)]
    /\ UNCHANGED <<active, nextId, exposed, exposedTwin, adapter>>

\* conn.remote[prop](...args)
Call(c, prop) ==
    /\ conn[c].connectState = "resolved"
    /\ Len(conn[c].calls) < MaxCalls
    /\ IF prop = SymbolProp
       THEN UNCHANGED <<conn, nextId>>
       ELSE /\ conn' = [conn EXCEPT ![c] =
                            ProxyCall(@, prop, ArgsOf(prop), generateId(nextId + 1))]
            /\ nextId' = nextId + 1
    /\ lastEvent' = [op |-> "other"]
    /\ UNCHANGED <<active, exposed, exposedTwin, adapter>>

\* the timer of call k fires
CallTimeout(c, k) ==
    /\ k \in 1..Len(conn[c].calls)
    /\ conn[c].calls[k].timer = "armed"
    /\ conn' = [conn EXCEPT ![c] = CallTimerCallback(@, k)]
    /\ lastEvent' = [op |-> "other"]
    /\ UNCHANGED <<active, nextId, exposed, exposedTwin, adapter>>

\* conn.destroy()
Destroy(c) ==
    /\ conn[c].connectState = "resolved"
    /\ conn' = [conn EXCEPT ![c] = ConnectionDestroy(@)]
    /\ lastEvent' = [op |-> "other"]
    /\ UNCHANGED <<active, nextId, exposed, exposedTwin, adapter>>

(* ------------------------ the actions of the child --------------------- *)

ExposeOptionsSet == {[allowedOrigin |-> ParentOrigin], [allowedOrigin |-> Wildcard]}

RequestIds == {generateId(1), generateId(2)}

RequestMethods ==
    {"add", "greet", "slow", "fail", "oops", "version", "precision", "calculate",
     "constructor", "toString", "hasOwnProperty", "__proto__", "missing"}

ChildInboundData ==
    {createHandshakeRequest(n) : n \in RequestIds}
    \cup {createRequest(i, m, ArgsOf(m)) : i \in RequestIds, m \in RequestMethods}
    \cup {createResponse(generateId(1), Num(5)),
          JsNull,
          [type |-> "request", id |-> generateId(1), method |-> "add",
           args |-> ArgsOf("add")]}

ChildInboundOrigins == {ParentOrigin, OtherOrigin}

\* the "message" listener of the child window, while it is registered
ChildWindowMessage(es, data, origin) ==
    IF es.transport.listening THEN TransportHandleMessage(es, data, origin) ELSE es

\* new IframeExposed(api, options), or expose(api, options)
Expose(api, options) ==
    /\ exposed.state = "none"
    /\ exposed' = NewIframeExposed(api, options)
    /\ lastEvent' = [op |-> "other"]
    /\ UNCHANGED <<hostVars, exposedTwin>>

\* the child window receives a "message" event
ChildDeliver(data, origin) ==
    /\ exposed.handled < MaxRequests
    /\ exposed' = ChildWindowMessage(exposed, data, origin)
    /\ lastEvent' = [op |-> "message", to |-> "child", type |-> Get(data, "type"),
                     deliveredTo |-> IF Delivered(exposed, data, origin)
                                     THEN {"exposed"} ELSE {},
                     names |-> [kind |-> "nothing"]]
    /\ UNCHANGED <<hostVars, exposedTwin>>

\* an awaited operation finishes and dispatchRequest resumes
Settle(op) ==
    /\ BagIn(op, exposed.running)
    /\ exposed' = OperationSettles(exposed, op)
    /\ lastEvent' = [op |-> "other"]
    /\ UNCHANGED <<hostVars, exposedTwin>>

\* handle.destroy()
DestroyExposed ==
    /\ exposed.state # "none"
    /\ exposed' = ExposedDestroy(exposed)
    /\ lastEvent' = [op |-> "other"]
    /\ UNCHANGED <<hostVars, exposedTwin>>

(* --------------------------- the specifications ------------------------ *)

Init ==
    /\ conn = [c \in Conns |-> IdleConn]
    /\ active = {"A"}
    /\ nextId = 0
    /\ exposed = NoExposed
    /\ exposedTwin = NoExposed
    /\ adapter = NoAdapter
    /\ lastEvent = [op |-> "init"]

Next ==
    \/ \E c \in Conns, w \in BOOLEAN, o \in ConnectOptionsSet : Connect(c, w, o)
    \/ \E c \in Conns : Load(c)
    \/ \E c \in Conns : HandshakeTimeout(c)
    \/ \E d \in InboundData, o \in InboundOrigins : Deliver(d, o)
    \/ \E c \in Conns, p \in Props : Call(c, p)
    \/ \E c \in Conns, k \in 1..MaxCalls : CallTimeout(c, k)
    \/ \E c \in Conns : Destroy(c)

\* the caller engine, driven by its consumer, its timers and inbound messages
Spec == Init /\ [][Next]_vars

NextChild ==
    \/ \E a \in ApiObjects, o \in ExposeOptionsSet : Expose(a, o)
    \/ \E d \in ChildInboundData, o \in ChildInboundOrigins : ChildDeliver(d, o)
    \/ \E op \in BagToSet(exposed.running) : Settle(op)
    \/ DestroyExposed

\* the callee dispatcher, driven by inbound messages and its operations
SpecChild == Init /\ [][NextChild]_vars

(* ------------------------------- the claims ---------------------------- *)

CallsOf(c) == 1..Len(conn[c].calls)

\* the last step delivered a "message" event to the host window
HostMessage(e) == e.op = "message" /\ e.to = "host"

\* C1: every call is settled at most once, by a Response or an ErrorMessage
\* with its id, by its timer or by destroy(); a settled call's id is no longer
\* in the pending map, and no later event touches a settled call.
C1_SettledOnce ==
    \A c \in Conns : \A k \in CallsOf(c) :
        LET call == conn[c].calls[k] IN
        /\ call.settles <= 1
        /\ call.state = "pending" => call.settles = 0 /\ call.settledBy.by = "none"
        /\ call.state # "pending" =>
              /\ call.settles = 1
              /\ ~MapHas(conn[c].pendingCalls, call.id)
              /\ \/ call.settledBy.by \in {"timer", "destroy"}
                 \/ /\ call.settledBy.by = "message"
                    /\ call.settledBy.message.type \in {"response", "error"}
                    /\ call.settledBy.message.id = call.id

C1_OutcomeIsFinal ==
    \A c \in Conns : \A k \in CallsOf(c) :
        conn[c].calls[k].state # "pending" => conn'[c].calls[k] = conn[c].calls[k]

C1_FirstSettleWins == []C1_SettledOnce /\ [][C1_OutcomeIsFinal]_vars

\* a call resolved by its Response, then an ErrorMessage with its id arrives
C1_Witness ==
    /\ HostMessage(lastEvent)
    /\ lastEvent.type = "error"
    /\ \E c \in Conns : \E k \in CallsOf(c) :
          /\ lastEvent.names = [kind |-> "settled call", conn |-> c, call |-> k]
          /\ c \in lastEvent.deliveredTo
          /\ conn[c].calls[k].state = "resolved"

\* C2: with several calls in flight and Responses arriving in any order, a
\* call is resolved only by the Response that carries its own id, and with
\* the result that Response carries.
C2_OwnResult ==
    \A c \in Conns : \A k \in CallsOf(c) :
        LET call == conn[c].calls[k] IN
        call.state = "resolved" =>
            /\ call.settledBy.by = "message"
            /\ call.settledBy.message.type = "response"
            /\ call.settledBy.message.id = call.id
            /\ call.value = call.settledBy.message.result

\* all calls were in flight at once and were resolved in the reverse of the
\* order they were sent in, with results that differ
C2_Witness ==
    \E c \in Conns :
        /\ Len(conn[c].calls) = MaxCalls
        /\ conn[c].settleOrder = [i \in 1..MaxCalls |-> MaxCalls + 1 - i]
        /\ \A k \in CallsOf(c) : conn[c].calls[k].state = "resolved"
        /\ conn[c].calls[1].value # conn[c].calls[MaxCalls].value

\* C3: a Response whose id is in the pending map of an established connection
\* resolves that call with exactly its result, and an ErrorMessage rejects it
\* with an Error whose message is exactly its error text.
C3_SettledWith ==
    \A c \in Conns : \A k \in CallsOf(c) :
        LET call == conn[c].calls[k] IN
        call.settledBy.by = "message" =>
            /\ call.settledBy.message.type = "response" =>
                  /\ call.state = "resolved"
                  /\ call.value = call.settledBy.message.result
            /\ call.settledBy.message.type = "error" =>
                  /\ call.state = "rejected"
                  /\ call.value = [error |-> call.settledBy.message.error]

C3_MatchingMessageSettles ==
    ( /\ HostMessage(lastEvent')
      /\ lastEvent'.type \in {"response", "error"}
      /\ lastEvent'.names.kind = "pending call"
      /\ lastEvent'.names.conn \in lastEvent'.deliveredTo )
    => LET c == lastEvent'.names.conn
           k == lastEvent'.names.call
       IN  /\ conn[c].calls[k].state = "pending"
           /\ conn'[c].calls[k].state # "pending"
           /\ conn'[c].calls[k].settledBy.by = "message"
           /\ conn'[c].calls[k].settledBy.message.type = lastEvent'.type
           /\ conn'[c].calls[k].settledBy.message.id = conn[c].calls[k].id

C3_ResponseResolvesErrorRejects ==
    []C3_SettledWith /\ [][C3_MatchingMessageSettles]_vars

\* the last step delivered an ErrorMessage for a pending call, which is now
\* rejected with its text
C3_Witness ==
    /\ HostMessage(lastEvent)
    /\ lastEvent.type = "error"
    /\ lastEvent.names.kind = "pending call"
    /\ LET call == conn[lastEvent.names.conn].calls[lastEvent.names.call] IN
       /\ call.state = "rejected"
       /\ call.value = [error |-> "boom"]

\* the callTimeout a connection was configured with
ConfiguredCallTimeout(c) ==
    IF conn[c].options.callTimeout = <<>> THEN 10000 ELSE conn[c].options.callTimeout[1]

\* C4: a call whose timer fires is rejected with the timeout error that names
\* its method and the configured duration, and stays so: a Response or an
\* ErrorMessage with its id that arrives later neither resolves nor rejects it.
C4_TimedOutCallStaysRejected ==
    \A c \in Conns : \A k \in CallsOf(c) :
        LET call == conn[c].calls[k] IN
        (call.timer = "fired" \/ call.settledBy.by = "timer") =>
            /\ call.timer = "fired"
            /\ call.settledBy.by = "timer"
            /\ call.state = "rejected"
            /\ call.value =
                 [error |-> "Call to \"" \o call.method \o "\" timed out after "
                            \o ToString(ConfiguredCallTimeout(c)) \o "ms."]
            /\ call.settles = 1

\* a Response with the id of a timed-out call has just been delivered
C4_Witness ==
    /\ HostMessage(lastEvent)
    /\ lastEvent.type = "response"
    /\ lastEvent.names.kind = "settled call"
    /\ lastEvent.names.conn \in lastEvent.deliveredTo
    /\ conn[lastEvent.names.conn].calls[lastEvent.names.call].settledBy.by = "timer"

\* C5: destroy() rejects every pending call with the "Connection destroyed."
\* error (not the timeout error), clears its timer and empties the pending
\* map, all in the one step.
C5_DestroyStep ==
    \A c \in Conns :
        Destroy(c) =>
            /\ conn'[c].pendingCalls = <<>>
            /\ \A k \in CallsOf(c) :
                 conn[c].calls[k].state = "pending" =>
                    /\ conn'[c].calls[k].state = "rejected"
                    /\ conn'[c].calls[k].value = [error |-> "Connection destroyed."]
                    /\ conn'[c].calls[k].value #
                         NewError(CallTimeoutError(conn[c].calls[k].method,
                                                   ConfiguredCallTimeout(c)))
                    /\ conn[c].calls[k].timer = "armed"
                    /\ conn'[c].calls[k].timer = "cleared"
                    /\ conn'[c].calls[k].settles = 1

C5_DestroyRejectsAllPending == [][C5_DestroyStep]_vars

\* destroy() found every call of the connection pending
C5_Witness ==
    \E c \in Conns :
        /\ conn[c].destroyed
        /\ Len(conn[c].calls) = MaxCalls
        /\ \A k \in CallsOf(c) : conn[c].calls[k].settledBy.by = "destroy"

\* C6: after destroy() no inbound message changes anything of the connection:
\* its pending map, its timers and the outcome of every call stay as they are.
C6_MessageStep ==
    \A c \in Conns :
        (conn[c].destroyed /\ HostMessage(lastEvent')) => conn'[c] = conn[c]

C6_NoEffectAfterDestroy == [][C6_MessageStep]_vars

\* a call made after destroy() is pending, its Response arrives, and the call
\* is pending still
C6_Witness ==
    /\ HostMessage(lastEvent)
    /\ lastEvent.type = "response"
    /\ lastEvent.names.kind = "pending call"
    /\ conn[lastEvent.names.conn].destroyed
    /\ conn[lastEvent.names.conn].calls[lastEvent.names.call].state = "pending"

\* C7: a pending connect is resolved only by a HandshakeResponse carrying the
\* connection's own nonce, accepted while the connect is pending; the step
\* clears the handshake timer and the connect is settled once.  A
\* HandshakeResponse with another nonce changes nothing of a pending connect.
C7_ConnectOnce ==
    \A c \in Conns :
        /\ conn[c].connectSettles <= 1
        /\ conn[c].connectState = "resolved" =>
              conn[c].handshakeTimer = "cleared" /\ conn[c].connectSettles = 1
        /\ (conn[c].connectState = "pending" /\ conn[c].contentWindow = "window") =>
              conn[c].handshakeTimer = "armed"

C7_HandshakeStep ==
    \A c \in Conns :
        /\ (conn[c].connectState # "resolved" /\ conn'[c].connectState = "resolved") =>
              /\ conn[c].connectState = "pending"
              /\ HostMessage(lastEvent')
              /\ lastEvent'.type = "handshake-response"
              /\ lastEvent'.names = [kind |-> "nonce", conn |-> c]
              /\ c \in lastEvent'.deliveredTo
        /\ ( /\ conn[c].connectState = "pending"
             /\ HostMessage(lastEvent')
             /\ lastEvent'.type = "handshake-response"
             /\ lastEvent'.names # [kind |-> "nonce", conn |-> c] ) =>
              conn'[c] = conn[c]

C7_OnlyTheNonceCompletes == []C7_ConnectOnce /\ [][C7_HandshakeStep]_vars

\* a HandshakeResponse with a foreign nonce reached a pending connect
C7_Witness ==
    /\ HostMessage(lastEvent)
    /\ lastEvent.type = "handshake-response"
    /\ lastEvent.names.kind = "nothing"
    /\ \E c \in lastEvent.deliveredTo :
          conn[c].connectState = "pending" /\ conn[c].handshakeTimer = "armed"

\* the handshakeTimeout a connection was configured with
ConfiguredHandshakeTimeout(c) ==
    IF conn[c].options.handshakeTimeout = <<>>
    THEN 5000 ELSE conn[c].options.handshakeTimeout[1]

\* C8: once the handshake timer has fired the connect is rejected with the
\* handshake-timeout error naming the configured duration, the adapter is
\* torn down, and no HandshakeResponse resolves it or creates a connection.
C8_HandshakeTimedOut ==
    \A c \in Conns :
        conn[c].handshakeTimer = "fired" =>
            /\ conn[c].connectState = "rejected"
            /\ conn[c].connectValue =
                 [error |-> "Handshake timed out after "
                            \o ToString(ConfiguredHandshakeTimeout(c)) \o "ms."]
            /\ conn[c].connectSettles = 1
            /\ ~conn[c].transport.listening
            /\ conn[c].transport.callbacks = <<>>
            /\ ~conn[c].instance
            /\ conn[c].calls = <<>>

\* the matching HandshakeResponse arrives after the timer fired
C8_Witness ==
    /\ HostMessage(lastEvent)
    /\ lastEvent.type = "handshake-response"
    /\ lastEvent.names.kind = "nonce"
    /\ conn[lastEvent.names.conn].handshakeTimer = "fired"

\* C9: connect() on an iframe whose contentWindow is null rejects in the same
\* step and does nothing else: no transport and no listener, no handshake
\* timer, no nonce, and no message is ever posted.
C9_NullContentWindow ==
    \A c \in Conns :
        conn[c].contentWindow = "null" =>
            /\ conn[c].connectState = "rejected"
            /\ conn[c].connectValue =
                 [error |-> "iframe.contentWindow is null. Is the iframe attached to the DOM?"]
            /\ conn[c].connectSettles = 1
            /\ conn[c].transport = NoTransport
            /\ conn[c].transport.posted = EmptyBag
            /\ conn[c].handshakeTimer = "none"
            /\ ~conn[c].loadListener
            /\ conn[c].nonce = Undefined
            /\ ~conn[c].instance

\* a connect was rejected for a null contentWindow and a HandshakeResponse
\* arrived afterwards
C9_Witness ==
    /\ HostMessage(lastEvent)
    /\ lastEvent.type = "handshake-response"
    /\ \E c \in Conns : conn[c].contentWindow = "null"

\* C10: in every state of an exposure, handling a Request that names anything
\* but an own property of the api object (inherited members included) posts
\* one ErrorMessage carrying the request's id and the text
\* Method "<method>" is not exposed., and calls no function.
C10_NotExposed ==
    \A d \in ChildInboundData, o \in ChildInboundOrigins :
        ( /\ Get(d, "type") = "request"
          /\ Delivered(exposed, d, o)
          /\ Get(d, "method") \notin DOMAIN ApiObject(exposed.api).own )
        => LET after == ChildWindowMessage(exposed, d, o) IN
           /\ after.transport.posted =
                exposed.transport.posted
                (+) SetToBag({[message |->
                                  [__ifc |-> "__ifc__", type |-> "error", id |-> d.id,
                                   error |-> "Method \"" \o d.method \o "\" is not exposed."],
                               targetOrigin |-> exposed.transport.targetOrigin]})
           /\ after.invoked = exposed.invoked
           /\ after.running = exposed.running

\* "constructor" and "__proto__" were requested of an object literal and
\* answered with the error, and nothing was called
C10_Witness ==
    /\ exposed.api = "LiteralApi"
    /\ exposed.invoked = <<>>
    /\ \A m \in {"constructor", "__proto__"} :
          BagIn([message |-> createError(generateId(1), NotExposedError(m)),
                 targetOrigin |-> exposed.transport.targetOrigin],
                exposed.transport.posted)

\* the message a transport posts, with the origin it is addressed to
PostOf(es, message) ==
    SetToBag({[message |-> message, targetOrigin |-> es.transport.targetOrigin]})

\* C11: a Request naming the class method calculate of an exposed
\* new CalculatorAPI() is executed and answered with a Response carrying the
\* request's id and the method's return value.
C11_ClassMethodCallable ==
    \A d \in ChildInboundData, o \in ChildInboundOrigins :
        ( /\ exposed.api = "ClassApi"
          /\ Get(d, "type") = "request"
          /\ Get(d, "method") = "calculate"
          /\ Delivered(exposed, d, o) )
        => LET after == ChildWindowMessage(exposed, d, o) IN
           /\ after.transport.posted =
                exposed.transport.posted
                (+) PostOf(exposed, [__ifc |-> "__ifc__", type |-> "response",
                                     id |-> d.id, result |-> Num(8)])
           /\ after.invoked = Append(exposed.invoked,
                                     [id |-> d.id, method |-> "calculate",
                                      args |-> d.args, this |-> "ClassApi"])
\* the own entries of the exposed api object
OwnEntries == ApiObject(exposed.api).own

\* C12: handling a Request that names an own entry of the api object whose
\* value is not a function posts one ErrorMessage carrying the request's id
\* and the text "<method>" is not a function., and calls nothing.
C12_NotAFunction ==
    \A d \in ChildInboundData, o \in ChildInboundOrigins :
        ( /\ Get(d, "type") = "request"
          /\ Delivered(exposed, d, o)
          /\ Get(d, "method") \in DOMAIN OwnEntries
          /\ OwnEntries[d.method].typeof # "function" )
        => LET after == ChildWindowMessage(exposed, d, o) IN
           /\ after.transport.posted =
                exposed.transport.posted
                (+) PostOf(exposed, [__ifc |-> "__ifc__", type |-> "error", id |-> d.id,
                                     error |-> "\"" \o d.method \o "\" is not a function."])
           /\ after.invoked = exposed.invoked
           /\ after.running = exposed.running

\* requests for the data properties version and precision were answered
C12_Witness ==
    /\ exposed.handled >= 1
    /\ exposed.invoked = <<>>
    /\ \E m \in {"version", "precision"} :
          BagIn([message |-> [__ifc |-> "__ifc__", type |-> "error", id |-> "id-1",
                              error |-> "\"" \o m \o "\" is not a function."],
                 targetOrigin |-> exposed.transport.targetOrigin],
                exposed.transport.posted)
\* the own functions of LiteralApi that succeed, and what each returns for
\* the arguments the requests carry
SucceedingMethods == {"add", "greet", "slow"}
ExpectedReturn(method) ==
    CASE method = "add" -> Num(5)
      [] method = "greet" -> Str("Hello, World!")
      [] method = "slow" -> Str("done")

\* how many entries of a sequence satisfy Test
CountIn(seq, Test(_)) == Cardinality({i \in 1..Len(seq) : Test(seq[i])})

\* handling a Request for a succeeding own function calls it once, with the
\* request's args and the api object as receiver, and posts the Response with
\* the request's id and the return value (an operation that takes a task to
\* finish is left suspended instead, and nothing is posted yet)
C13_InvokedOnce ==
    \A d \in ChildInboundData, o \in ChildInboundOrigins :
        ( /\ exposed.api = "LiteralApi"
          /\ Get(d, "type") = "request"
          /\ Delivered(exposed, d, o)
          /\ Get(d, "method") \in SucceedingMethods )
        => LET after == ChildWindowMessage(exposed, d, o)
               response == [__ifc |-> "__ifc__", type |-> "response", id |-> d.id,
                            result |-> ExpectedReturn(d.method)]
           IN
           /\ after.invoked = Append(exposed.invoked,
                                     [id |-> d.id, method |-> d.method,
                                      args |-> d.args, this |-> "LiteralApi"])
           /\ IF d.method = "slow"
              THEN /\ after.transport.posted = exposed.transport.posted
                   /\ after.running =
                        exposed.running
                        (+) SetToBag({[id |-> d.id,
                                       outcome |-> [kind |-> "return",
                                                    value |-> Str("done")]]})
              ELSE /\ after.transport.posted =
                        exposed.transport.posted (+) PostOf(exposed, response)
                   /\ after.running = exposed.running

\* every call of a succeeding function is either still suspended or answered
\* by exactly one Response with its request's id and its return value, and
\* no other such Response is posted
C13_ResponsePerInvocation ==
    \A id \in RequestIds, m \in SucceedingMethods :
        CountIn(exposed.invoked, LAMBDA e : e.id = id /\ e.method = m)
        = CopiesIn([message |-> [__ifc |-> "__ifc__", type |-> "response", id |-> id,
                                 result |-> ExpectedReturn(m)],
                    targetOrigin |-> exposed.transport.targetOrigin],
                   exposed.transport.posted)
          + CopiesIn([id |-> id, outcome |-> [kind |-> "return",
                                              value |-> ExpectedReturn(m)]],
                     exposed.running)

\* C13: a Request naming an own function of the api object that succeeds
\* makes the dispatcher call that function once, with args positionally and
\* the api object as receiver, and send one Response with the request's id
\* and the awaited return value.
C13_SuccessAnswered == C13_InvokedOnce /\ C13_ResponsePerInvocation

\* add(2, 3) was answered with 5 under its id and a slow operation, called
\* under another id, finished and was answered as well
C13_Witness ==
    /\ exposed.running = EmptyBag
    /\ Len(exposed.invoked) = 2
    /\ exposed.invoked[1].method = "slow"
    /\ exposed.invoked[2].method = "add"
    /\ exposed.invoked[1].id # exposed.invoked[2].id
    /\ BagIn([message |-> [__ifc |-> "__ifc__", type |-> "response",
                           id |-> exposed.invoked[2].id, result |-> Num(5)],
              targetOrigin |-> exposed.transport.targetOrigin],
             exposed.transport.posted)
    /\ BagIn([message |-> [__ifc |-> "__ifc__", type |-> "response",
                           id |-> exposed.invoked[1].id, result |-> Str("done")],
              targetOrigin |-> exposed.transport.targetOrigin],
             exposed.transport.posted)
\* the own functions of LiteralApi that fail, and the text of each failure:
\* fail throws new Error("boom"), oops throws the string "oops"
FailingMethods == {"fail", "oops"}
FailureText(method) == IF method = "fail" THEN "boom" ELSE "oops"
FailureOf(method) ==
    IF method = "fail"
    THEN [instanceofError |-> TRUE, message |-> "boom",
          stack |-> "Error: boom\n    at api (child.js:1:1)"]
    ELSE [instanceofError |-> FALSE, string |-> "oops"]

\* the ErrorMessage of a failure, as posted: four fields and nothing else
FailurePost(id, method) ==
    [message |-> [__ifc |-> "__ifc__", type |-> "error", id |-> id,
                  error |-> FailureText(method)],
     targetOrigin |-> exposed.transport.targetOrigin]

\* handling a Request for a failing own function calls it once and posts
\* nothing but the ErrorMessage with the failure's text (a failure that comes
\* a task later leaves the call suspended and posts nothing yet)
C14_FailingRequest ==
    \A d \in ChildInboundData, o \in ChildInboundOrigins :
        ( /\ exposed.api = "LiteralApi"
          /\ Get(d, "type") = "request"
          /\ Delivered(exposed, d, o)
          /\ Get(d, "method") \in FailingMethods )
        => LET after == ChildWindowMessage(exposed, d, o) IN
           /\ Len(after.invoked) = Len(exposed.invoked) + 1
           /\ IF d.method = "fail"
              THEN /\ after.transport.posted = exposed.transport.posted
                   /\ after.running =
                        exposed.running
                        (+) SetToBag({[id |-> d.id,
                                       outcome |-> [kind |-> "throw",
                                                    value |-> FailureOf("fail")]]})
              ELSE /\ after.transport.posted =
                        exposed.transport.posted (+) SetToBag({FailurePost(d.id, "oops")})
                   /\ after.running = exposed.running

\* when a suspended operation rejects, the dispatcher posts nothing but the
\* ErrorMessage with the request's id and the failure's message
C14_RejectionAnswered ==
    \A op \in BagToSet(exposed.running) :
        op.outcome.kind = "throw" =>
            LET after == OperationSettles(exposed, op) IN
            /\ after.transport.posted =
                 exposed.transport.posted (+) SetToBag({FailurePost(op.id, "fail")})
            /\ after.invoked = exposed.invoked

\* every call of a failing function is either still suspended or answered by
\* exactly one ErrorMessage with its request's id and the failure's text
C14_ErrorPerInvocation ==
    \A id \in RequestIds, m \in FailingMethods :
        CountIn(exposed.invoked, LAMBDA e : e.id = id /\ e.method = m)
        = CopiesIn(FailurePost(id, m), exposed.transport.posted)
          + CopiesIn([id |-> id, outcome |-> [kind |-> "throw", value |-> FailureOf(m)]],
                     exposed.running)

\* C14: when an exposed operation throws or its promise rejects, the
\* dispatcher sends exactly one ErrorMessage with the request's id whose error
\* field is the failure's message text only (the message of an Error, the
\* string form of another value): no stack, no other field, and no Response.
C14_FailureAnswered ==
    C14_FailingRequest /\ C14_RejectionAnswered /\ C14_ErrorPerInvocation

\* fail rejected a task after it was called and was answered with "boom";
\* oops threw a string and was answered with "oops"
C14_Witness ==
    /\ exposed.running = EmptyBag
    /\ Len(exposed.invoked) = 2
    /\ exposed.invoked[1].method = "fail"
    /\ exposed.invoked[2].method = "oops"
    /\ BagIn(FailurePost(exposed.invoked[1].id, "fail"), exposed.transport.posted)
    /\ BagIn(FailurePost(exposed.invoked[2].id, "oops"), exposed.transport.posted)
    /\ BagCardinality(exposed.transport.posted) = 2
\* the part of a bag whose elements satisfy Test
BagWhere(bag, Test(_)) == [e \in {x \in BagToSet(bag) : Test(x)} |-> bag[e]]

\* the one message a request for method under id is to be answered with: the
\* not-exposed error, the not-a-function error, the failure's error or the
\* Response
AnswerTo(id, method) ==
    LET Error(text) == [__ifc |-> "__ifc__", type |-> "error", id |-> id, error |-> text]
    IN  IF method \notin DOMAIN OwnEntries
        THEN Error("Method \"" \o method \o "\" is not exposed.")
        ELSE IF OwnEntries[method].typeof # "function"
        THEN Error("\"" \o method \o "\" is not a function.")
        ELSE IF method \in FailingMethods
        THEN Error(FailureText(method))
        ELSE [__ifc |-> "__ifc__", type |-> "response", id |-> id,
              result |-> ExpectedReturn(method)]

\* the suspended calls of method under id
SuspendedCalls(id, method) ==
    BagWhere(exposed.running,
             LAMBDA op : /\ op.id = id
                         /\ method \in DOMAIN OwnEntries
                         /\ \/ method = "slow" /\ op.outcome.kind = "return"
                            \/ method = "fail" /\ op.outcome.kind = "throw")

\* C15: every Request the dispatcher handled has produced exactly one
\* outbound message carrying its id, namely the one of the not-exposed error,
\* the not-a-function error, the failure error or the Response that its method
\* calls for, unless its operation is still suspended; no request has
\* produced two messages, and nothing else carrying an id was posted.
C15_OneAnswerPerRequest ==
    /\ \A r \in BagToSet(exposed.requests) :
          CopiesIn(r, exposed.requests)
          = CopiesIn([message |-> AnswerTo(r.id, r.method),
                      targetOrigin |-> exposed.transport.targetOrigin],
                     exposed.transport.posted)
            + BagCardinality(SuspendedCalls(r.id, r.method))
    /\ BagCardinality(exposed.requests)
       = BagCardinality(BagWhere(exposed.transport.posted,
                                 LAMBDA p : p.message.type \in {"response", "error"}))
         + BagCardinality(exposed.running)

\* two requests under one id, one for a missing method and one for slow, were
\* each answered: the first with the not-exposed error, the second, once the
\* operation finished, with its Response
C15_Witness ==
    /\ exposed.requests = SetToBag({[id |-> "id-1", method |-> "missing"],
                                    [id |-> "id-1", method |-> "slow"]})
    /\ exposed.running = EmptyBag
    /\ BagCardinality(exposed.transport.posted) = 2
\* the HandshakeResponse for a nonce, as posted
HandshakePost(nonce) ==
    [message |-> [__ifc |-> "__ifc__", type |-> "handshake-response", nonce |-> nonce],
     targetOrigin |-> exposed.transport.targetOrigin]

\* C16: in every state of an active exposure, whatever it has answered
\* before, handling a HandshakeRequest posts exactly one HandshakeResponse
\* with the identical nonce in that same step, changes nothing else of the
\* exposure (no handshake state is kept) and calls no exposed operation.
C16_HandshakeEchoed ==
    \A d \in ChildInboundData, o \in ChildInboundOrigins :
        ( /\ Get(d, "type") = "handshake-request"
          /\ Delivered(exposed, d, o) )
        => LET after == ChildWindowMessage(exposed, d, o) IN
           /\ after.transport.posted =
                exposed.transport.posted (+) SetToBag({HandshakePost(d.nonce)})
           /\ [after EXCEPT !.transport.posted = exposed.transport.posted,
                            !.handled = exposed.handled] = exposed

\* the same handshake request was answered twice
C16_Witness ==
    /\ exposed.state = "active"
    /\ \E n \in RequestIds : CopiesIn(HandshakePost(n), exposed.transport.posted) = 2
    /\ exposed.invoked = <<>>
(* ------------- two runs that differ in wrong-origin traffic ------------ *)

\* conn["A"] and conn["B"] are two runs of one connection, exposed and
\* exposedTwin two runs of one exposure.  Both runs are given the same
\* operations, timer events and messages that pass the origin check; each run
\* receives messages of its own that fail it.

\* this.targetOrigin === "*" || event.origin === this.targetOrigin
OriginAccepted(t, origin) == t.targetOrigin = Wildcard \/ origin = t.targetOrigin

HostIdle == conn = [c \in Conns |-> IdleConn]
NoExposure == exposed.state = "none" /\ exposedTwin.state = "none"

InitRuns ==
    /\ conn = [c \in Conns |-> IdleConn]
    /\ active = Conns
    /\ nextId = 0
    /\ exposed = NoExposed
    /\ exposedTwin = NoExposed
    /\ adapter = NoAdapter
    /\ lastEvent = [op |-> "init"]

RunsConnect(contentWindow, options) ==
    /\ NoExposure
    /\ \A c \in Conns : conn[c].connectState = "idle"
    /\ conn' = [c \in Conns |->
                    ConnectExecutor(conn[c], contentWindow, options,
                                    generateId(nextId + 1))]
    /\ nextId' = IF contentWindow THEN nextId + 1 ELSE nextId
    /\ lastEvent' = [op |-> "other"]
    /\ UNCHANGED <<active, exposed, exposedTwin, adapter>>

RunsLoad ==
    /\ \A c \in Conns : conn[c].loadListener /\ conn[c].loadCount < MaxLoads
    /\ conn' = [c \in Conns |-> LoadListener(conn[c])]
    /\ lastEvent' = [op |-> "other"]
    /\ UNCHANGED <<active, nextId, exposed, exposedTwin, adapter>>

RunsHandshakeTimeout ==
    /\ \A c \in Conns : conn[c].handshakeTimer = "armed"
    /\ conn' = [c \in Conns |-> HandshakeTimerCallback(conn[c])]
    /\ lastEvent' = [op |-> "other"]
    /\ UNCHANGED <<active, nextId, exposed, exposedTwin, adapter>>

\* a message that passes the origin check arrives in both runs
RunsDeliver(data, origin) ==
    /\ \A c \in Conns : /\ conn[c].transport.listening
                         /\ OriginAccepted(conn[c].transport, origin)
    /\ conn' = [c \in Conns |-> TransportHandleMessage(conn[c], data, origin)]
    /\ lastEvent' = [op |-> "other"]
    /\ UNCHANGED <<active, nextId, exposed, exposedTwin, adapter>>

\* a message that fails the origin check arrives in run c only
RunOtherOrigin(c, data, origin) ==
    /\ conn[c].transport.listening
    /\ ~OriginAccepted(conn[c].transport, origin)
    /\ conn' = [conn EXCEPT ![c] = TransportHandleMessage(@, data, origin)]
    /\ lastEvent' = [op |-> "other-origin", run |-> c, names |-> Names(data).kind]
    /\ UNCHANGED <<active, nextId, exposed, exposedTwin, adapter>>

RunsCall(prop) ==
    /\ \A c \in Conns : /\ conn[c].connectState = "resolved"
                         /\ Len(conn[c].calls) < MaxCalls
    /\ prop # SymbolProp
    /\ conn' = [c \in Conns |->
                    ProxyCall(conn[c], prop, ArgsOf(prop), generateId(nextId + 1))]
    /\ nextId' = nextId + 1
    /\ lastEvent' = [op |-> "other"]
    /\ UNCHANGED <<active, exposed, exposedTwin, adapter>>

RunsCallTimeout(k) ==
    /\ \A c \in Conns : /\ k \in 1..Len(conn[c].calls)
                         /\ conn[c].calls[k].timer = "armed"
    /\ conn' = [c \in Conns |-> CallTimerCallback(conn[c], k)]
    /\ lastEvent' = [op |-> "other"]
    /\ UNCHANGED <<active, nextId, exposed, exposedTwin, adapter>>

RunsDestroy ==
    /\ \A c \in Conns : conn[c].connectState = "resolved"
    /\ conn' = [c \in Conns |-> ConnectionDestroy(conn[c])]
    /\ lastEvent' = [op |-> "other"]
    /\ UNCHANGED <<active, nextId, exposed, exposedTwin, adapter>>
RunsExpose(api, options) ==
    /\ HostIdle
    /\ NoExposure
    /\ exposed' = NewIframeExposed(api, options)
    /\ exposedTwin' = NewIframeExposed(api, options)
    /\ lastEvent' = [op |-> "other"]
    /\ UNCHANGED hostVars

\* a message that passes the origin check arrives in both runs
RunsChildDeliver(data, origin) ==
    /\ exposed.handled < MaxRequests
    /\ exposed.transport.listening /\ exposedTwin.transport.listening
    /\ OriginAccepted(exposed.transport, origin)
    /\ OriginAccepted(exposedTwin.transport, origin)
    /\ exposed' = ChildWindowMessage(exposed, data, origin)
    /\ exposedTwin' = ChildWindowMessage(exposedTwin, data, origin)
    /\ lastEvent' = [op |-> "other"]
    /\ UNCHANGED hostVars

\* a message that fails the origin check arrives in one run only
RunChildOtherOrigin(twin, data, origin) ==
    /\ LET es == IF twin THEN exposedTwin ELSE exposed IN
       /\ es.transport.listening
       /\ ~OriginAccepted(es.transport, origin)
    /\ IF twin
       THEN /\ exposedTwin' = ChildWindowMessage(exposedTwin, data, origin)
            /\ UNCHANGED exposed
       ELSE /\ exposed' = ChildWindowMessage(exposed, data, origin)
            /\ UNCHANGED exposedTwin
    /\ lastEvent' = [op |-> "other-origin",
                     run |-> IF twin THEN "exposedTwin" ELSE "exposed",
                     names |-> Get(data, "type")]
    /\ UNCHANGED hostVars

RunsSettle(op) ==
    /\ BagIn(op, exposed.running) /\ BagIn(op, exposedTwin.running)
    /\ exposed' = OperationSettles(exposed, op)
    /\ exposedTwin' = OperationSettles(exposedTwin, op)
    /\ lastEvent' = [op |-> "other"]
    /\ UNCHANGED hostVars

RunsDestroyExposed ==
    /\ exposed.state # "none" /\ exposedTwin.state # "none"
    /\ exposed' = ExposedDestroy(exposed)
    /\ exposedTwin' = ExposedDestroy(exposedTwin)
    /\ lastEvent' = [op |-> "other"]
    /\ UNCHANGED hostVars

NextRuns ==
    \/ \E w \in BOOLEAN, o \in ConnectOptionsSet : RunsConnect(w, o)
    \/ RunsLoad
    \/ RunsHandshakeTimeout
    \/ \E d \in InboundData, o \in InboundOrigins : RunsDeliver(d, o)
    \/ \E c \in Conns, d \in InboundData, o \in InboundOrigins : RunOtherOrigin(c, d, o)
    \/ \E p \in Methods : RunsCall(p)
    \/ \E k \in 1..MaxCalls : RunsCallTimeout(k)
    \/ RunsDestroy
    \/ \E a \in ApiObjects, o \in ExposeOptionsSet : RunsExpose(a, o)
    \/ \E d \in ChildInboundData, o \in ChildInboundOrigins : RunsChildDeliver(d, o)
    \/ \E t \in BOOLEAN, d \in ChildInboundData, o \in ChildInboundOrigins :
            RunChildOtherOrigin(t, d, o)
    \/ \E op \in BagToSet(exposed.running) : RunsSettle(op)
    \/ RunsDestroyExposed

\* two runs of a connection, or two runs of an exposure, side by side
SpecRuns == InitRuns /\ [][NextRuns]_vars

\* the two runs have sent the same messages, settled the same calls with
\* the same outcomes and invoked the same operations: they are in the same
\* state
C17_SameRuns ==
    /\ conn["A"] = conn["B"]
    /\ exposed = exposedTwin

\* with origin "*" a message is handled whatever its origin: the matching
\* HandshakeResponse completes a pending connect, a HandshakeRequest is answered
C17_WildcardAccepts ==
    /\ \A c \in Conns, o \in Origins :
          ( /\ conn[c].transport.listening
            /\ conn[c].transport.targetOrigin = Wildcard
            /\ conn[c].connectState = "pending" )
          => TransportHandleMessage(conn[c], createHandshakeResponse(conn[c].nonce), o)
                .connectState = "resolved"
    /\ \A n \in RequestIds, o \in Origins :
          ( /\ exposed.transport.listening
            /\ exposed.transport.targetOrigin = Wildcard )
          => TransportHandleMessage(exposed, createHandshakeRequest(n), o).transport.posted
             = exposed.transport.posted (+) SetToBag({HandshakePost(n)})

\* C17: with a pinned origin, two runs of a connection or of an exposure
\* that are given the same operations and the same messages from the
\* configured origin, and differ only in the messages they receive from other
\* origins, send the same messages, invoke the same operations and settle the
\* same calls with the same outcomes; with origin "*" messages of any origin
\* are handled.
C17_WrongOriginNoninterference == C17_SameRuns /\ C17_WildcardAccepts

\* one run of a connection pinned to the child's origin received, from
\* another origin, a reply naming a call that was pending
C17_Witness ==
    /\ lastEvent.op = "other-origin"
    /\ lastEvent.names = "pending call"
    /\ conn[lastEvent.run].transport.targetOrigin = ChildOrigin
    /\ \E k \in 1..Len(conn[lastEvent.run].calls) :
          conn[lastEvent.run].calls[k].state = "pending"
(* ----------------------- a Transport used on its own ------------------- *)

\* callbacks handed to onMessage: each records what it is called with
Subscribers == {"callback1", "callback2"}

AdapterOrigins == {ChildOrigin, Wildcard}

\* payloads of "message" events: two protocol messages, and payloads without
\* the brand, with another brand, a string and null
AdapterData ==
    { createHandshakeRequest("nonce-123"),
      createRequest("id-1", "test", <<>>),
      [type |-> "handshake-request", nonce |-> "123"],
      [__ifc |-> "wrong-brand", type |-> "request"],
      JsString("plain string"),
      JsNull }

\* new Transport(target, targetOrigin)
NewAdapter(targetOrigin) ==
    /\ adapter = NoAdapter
    /\ adapter' = [adapter EXCEPT !.transport = NewTransport(targetOrigin)]
    /\ lastEvent' = [op |-> "other"]
    /\ UNCHANGED <<conn, active, nextId, exposed, exposedTwin>>

\* transport.onMessage(callback)
Subscribe(callback) ==
    /\ adapter # NoAdapter
    /\ adapter' = [adapter EXCEPT !.transport = TransportOnMessage(@, callback),
                                  !.issued = @ \cup {callback}]
    /\ lastEvent' = [op |-> "subscribe", callback |-> callback]
    /\ UNCHANGED <<conn, active, nextId, exposed, exposedTwin>>

\* a call of the function onMessage(callback) returned
Unsubscribe(callback) ==
    /\ callback \in adapter.issued
    /\ adapter' = [adapter EXCEPT !.transport = TransportUnsubscribe(@, callback)]
    /\ lastEvent' = [op |-> "unsubscribe", callback |-> callback]
    /\ UNCHANGED <<conn, active, nextId, exposed, exposedTwin>>

\* the "message" listener of the window, while it is registered
AdapterWindowMessage(a, data, origin) ==
    IF a.transport.listening THEN TransportHandleMessage(a, data, origin) ELSE a

\* the window receives a "message" event
AdapterDeliver(data, origin) ==
    /\ adapter # NoAdapter
    /\ Len(adapter.received) + Len(adapter.transport.callbacks) <= MaxReceived
    /\ adapter' = AdapterWindowMessage(adapter, data, origin)
    /\ lastEvent' = [op |-> "message", to |-> "adapter"]
    /\ UNCHANGED <<conn, active, nextId, exposed, exposedTwin>>

\* transport.destroy()
DestroyAdapter ==
    /\ adapter # NoAdapter
    /\ adapter' = [adapter EXCEPT !.transport = TransportDestroy(@),
                                  !.destroyed = TRUE]
    /\ lastEvent' = [op |-> "other"]
    /\ UNCHANGED <<conn, active, nextId, exposed, exposedTwin>>

NextTransport ==
    \/ \E o \in AdapterOrigins : NewAdapter(o)
    \/ \E cb \in Subscribers : Subscribe(cb)
    \/ \E cb \in Subscribers : Unsubscribe(cb)
    \/ \E d \in AdapterData, o \in InboundOrigins : AdapterDeliver(d, o)
    \/ DestroyAdapter

\* a Transport driven by its owner and by inbound "message" events
SpecTransport == Init /\ [][NextTransport]_vars

\* the record of one call of each subscriber in cbs, in order
CallsWith(cbs, data, origin) ==
    [i \in 1..Len(cbs) |-> [callback |-> cbs[i], message |-> data, origin |-> origin]]

\* C18: for a "message" event the adapter calls its subscribers if and only
\* if the event's origin is the configured origin, or the configured origin is
\* "*", and the payload passes isProtocolMessage; any other event calls no
\* subscriber and leaves the adapter as it was.
C18_CalledIffQualifies ==
    \A d \in AdapterData, o \in InboundOrigins :
        adapter.transport.listening =>
            LET after == TransportHandleMessage(adapter, d, o)
                qualifies ==
                    /\ o = adapter.transport.targetOrigin
                       \/ adapter.transport.targetOrigin = "*"
                    /\ isProtocolMessage(d)
            IN  /\ adapter.transport.callbacks # <<>>
                   => (after.received # adapter.received <=> qualifies)
                /\ ~qualifies => after = adapter

\* a subscriber of an adapter pinned to an origin was called for a protocol
\* message from that origin, and the adapter has seen nothing else it accepts
C18_Witness ==
    /\ adapter.transport.targetOrigin = ChildOrigin
    /\ adapter.transport.callbacks = <<"callback1">>
    /\ adapter.received =
         <<[callback |-> "callback1", message |-> createHandshakeRequest("nonce-123"),
            origin |-> ChildOrigin]>>
\* C19: with several subscribers registered, a qualifying "message" event
\* calls each of them exactly once, in registration order, each with the
\* event's message and origin: no subscriber consumes it for the others.
C19_EachSubscriberOnce ==
    \A d \in AdapterData, o \in InboundOrigins :
        ( /\ adapter.transport.listening
          /\ Len(adapter.transport.callbacks) >= 2
          /\ o = adapter.transport.targetOrigin \/ adapter.transport.targetOrigin = "*"
          /\ isProtocolMessage(d) )
        => LET after == TransportHandleMessage(adapter, d, o) IN
           /\ after.received =
                adapter.received \o CallsWith(adapter.transport.callbacks, d, o)
           /\ after.transport = adapter.transport

\* two subscribers were each called once with the same request and origin
C19_Witness ==
    /\ Len(adapter.transport.callbacks) = 2
    /\ Len(adapter.received) = 2
    /\ adapter.received[1].callback # adapter.received[2].callback
    /\ adapter.received[1].message = createRequest("id-1", "test", <<>>)
    /\ adapter.received[2].message = adapter.received[1].message
    /\ adapter.received[2].origin = adapter.received[1].origin

\* whether a callback is in the adapter's set
Subscribed(cb) == \E i \in 1..Len(adapter.transport.callbacks) :
                      adapter.transport.callbacks[i] = cb

\* a callback that is not in the set is called for no event, while every
\* other subscriber is called for each qualifying one
C20_NotCalled ==
    \A cb \in Subscribers, d \in AdapterData, o \in InboundOrigins :
        ( /\ adapter.transport.listening
          /\ cb \in adapter.issued
          /\ ~Subscribed(cb) )
        => LET after == TransportHandleMessage(adapter, d, o)
               new == SubSeq(after.received, Len(adapter.received) + 1,
                             Len(after.received))
           IN  /\ \A i \in 1..Len(new) : new[i].callback # cb
               /\ ( /\ o = adapter.transport.targetOrigin
                       \/ adapter.transport.targetOrigin = "*"
                    /\ isProtocolMessage(d) )
                  => \A other \in Subscribers :
                        Subscribed(other) =>
                            \E i \in 1..Len(new) : new[i].callback = other

\* calling an unsubscribe function takes its callback, and only it, out of
\* the set; calling it again changes nothing
C20_UnsubscribeStep ==
    \A cb \in Subscribers :
        Unsubscribe(cb) =>
            /\ adapter'.transport.callbacks =
                 SelectSeq(adapter.transport.callbacks, LAMBDA x : x # cb)
            /\ adapter'.received = adapter.received
            /\ ~Subscribed(cb) => adapter' = adapter

\* a callback taken out of the set comes back only by a new onMessage
C20_StaysOut ==
    \A cb \in Subscribers :
        ( /\ ~Subscribed(cb)
          /\ \E i \in 1..Len(adapter'.transport.callbacks) :
                adapter'.transport.callbacks[i] = cb )
        => Subscribe(cb)

\* C20: once the unsubscribe function onMessage returned for a callback has
\* been called, that callback is called for no later event while every other
\* subscriber of the adapter keeps being called for each qualifying one;
\* calling unsubscribe again changes nothing.
C20_Unsubscribed ==
    []C20_NotCalled /\ [][C20_UnsubscribeStep /\ C20_StaysOut]_vars

\* callback1 and callback2 received a first message; callback1 was then
\* unsubscribed and only callback2 received the second message
C20_Witness ==
    /\ lastEvent.op = "message"
    /\ adapter.transport.callbacks = <<"callback2">>
    /\ adapter.issued = Subscribers
    /\ Len(adapter.received) = 3
    /\ adapter.received[1].callback = "callback1"
    /\ adapter.received[2].callback = "callback2"
    /\ adapter.received[3].callback = "callback2"
    /\ adapter.received[3].message # adapter.received[1].message

\* destroy() removes the window listener and empties the subscriber set
C21_DestroyStep ==
    DestroyAdapter =>
        /\ ~adapter'.transport.listening
        /\ adapter'.transport.callbacks = <<>>

\* once destroy() was called no step calls a subscriber, and the window
\* listener stays removed
C21_NothingCalledAfterDestroy ==
    adapter.destroyed =>
        /\ adapter'.received = adapter.received
        /\ ~adapter'.transport.listening

\* in a destroyed adapter no "message" event has any effect, whoever is
\* subscribed
C21_EventsIgnored ==
    adapter.destroyed =>
        \A d \in AdapterData, o \in InboundOrigins :
            AdapterWindowMessage(adapter, d, o) = adapter

\* C21: after Transport.destroy() the window listener is deregistered and
\* the subscriber set is empty, and no subscriber, registered before destroy
\* or after it, is called for any later "message" event.
C21_DestroyedAdapterSilent ==
    []C21_EventsIgnored /\ [][C21_DestroyStep /\ C21_NothingCalledAfterDestroy]_vars

\* a subscriber was called before destroy(); after destroy() another callback
\* was registered and a "message" event arrived: nothing more was received
C21_Witness ==
    /\ adapter.destroyed
    /\ lastEvent = [op |-> "message", to |-> "adapter"]
    /\ adapter.transport.callbacks = <<"callback2">>
    /\ Len(adapter.received) = 1
    /\ adapter.received[1].callback = "callback1"
(* ------------------ a connection and an exposure, linked --------------- *)

\* The host window and the window of the iframe post to each other: what one
\* side hands to postMessage is in flight until the platform takes it to the
\* other window, once, as a "message" event whose origin is the sender's.

\* the pairs handed to postMessage and not yet taken to the target window
InFlight(t) == t.posted (-) t.delivered

\* postMessage(message, targetOrigin) dispatches the event only in a window
\* of that origin, or in any window when targetOrigin is "*"
PlatformDelivers(p, windowOrigin) ==
    p.targetOrigin = Wildcard \/ p.targetOrigin = windowOrigin

\* a message of the connection reaches the window of the iframe
LinkToChild(p) ==
    /\ BagIn(p, InFlight(conn["A"].transport))
    /\ conn' = [conn EXCEPT !["A"].transport.delivered = @ (+) SetToBag({p})]
    /\ exposed' = IF PlatformDelivers(p, ChildOrigin)
                  THEN ChildWindowMessage(exposed, p.message, ParentOrigin)
                  ELSE exposed
    /\ lastEvent' = [op |-> "other"]
    /\ UNCHANGED <<active, nextId, exposedTwin, adapter>>

\* a message of the exposure reaches the host window
LinkToHost(p) ==
    /\ BagIn(p, InFlight(exposed.transport))
    /\ exposed' = [exposed EXCEPT !.transport.delivered = @ (+) SetToBag({p})]
    /\ conn' = [c \in Conns |->
                    IF PlatformDelivers(p, ParentOrigin) /\ conn[c].transport.listening
                    THEN TransportHandleMessage(conn[c], p.message, ChildOrigin)
                    ELSE conn[c]]
    /\ lastEvent' = [op |-> "other"]
    /\ UNCHANGED <<active, nextId, exposedTwin, adapter>>

\* what the consumer calls on the proxy: an operation that returns at once
\* and one that returns after a delay
LinkProps == {"add", "slow"}

\* the consumer awaits each call before it makes the next
LinkCall(c, prop) ==
    /\ \A k \in 1..Len(conn[c].calls) : conn[c].calls[k].state # "pending"
    /\ Call(c, prop)

NextLink ==
    \/ \E c \in Conns, w \in BOOLEAN, o \in ConnectOptionsSet : Connect(c, w, o)
    \/ \E c \in Conns : Load(c)
    \/ \E c \in Conns : HandshakeTimeout(c)
    \/ \E c \in Conns, p \in LinkProps : LinkCall(c, p)
    \/ \E c \in Conns, k \in 1..MaxCalls : CallTimeout(c, k)
    \/ \E c \in Conns : Destroy(c)
    \/ \E o \in ExposeOptionsSet : Expose("LiteralApi", o)
    \/ \E op \in BagToSet(exposed.running) : Settle(op)
    \/ DestroyExposed
    \/ \E p \in BagToSet(conn["A"].transport.posted) : LinkToChild(p)
    \/ \E p \in BagToSet(exposed.transport.posted) : LinkToHost(p)

\* the caller engine and the callee dispatcher over the two windows
SpecLink == Init /\ [][NextLink]_vars
\* every pair Transport t handed to postMessage carries this origin
TaggedWith(t, origin) == \A p \in BagToSet(t.posted) : p.targetOrigin = origin

\* the messages connection cs builds: the HandshakeRequest with its nonce and
\* the Request of each call
ConnectionMessages(cs) ==
    {createHandshakeRequest(cs.nonce)}
    \cup {createRequest(cs.calls[k].id, cs.calls[k].method, ArgsOf(cs.calls[k].method)) :
            k \in 1..Len(cs.calls)}

\* a message as one of the three constructors of the exposure builds it
ExposureMessage(m) ==
    CASE Get(m, "type") = "handshake-response" -> m = createHandshakeResponse(m.nonce)
      [] Get(m, "type") = "response" -> m = createResponse(m.id, m.result)
      [] Get(m, "type") = "error" -> m = createError(m.id, m.error)
      [] OTHER -> FALSE

\* send(message) hands exactly (message, targetOrigin) to postMessage
C22_SendUnchanged(t) ==
    \A m \in {d \in AdapterData : isProtocolMessage(d)} :
        TransportSend(t, m).posted =
            t.posted (+) SetToBag({[message |-> m, targetOrigin |-> t.targetOrigin]})

\* messages of another origin that an exposure answers when it accepts them
C22_Probes ==
    {createHandshakeRequest(generateId(1))}
    \cup {createRequest(generateId(1), m, ArgsOf(m)) : m \in {"add", "oops", "missing"}}

\* C22: every outbound message is handed to postMessage as built and with the
\* origin the adapter was configured with ("*" when so configured): the
\* messages of a connection with targetOrigin, those of an exposure with
\* allowedOrigin, whatever the origin of the message they answer.
C22_TaggedWithConfiguredOrigin ==
    /\ \A c \in Conns : conn[c].transport # NoTransport =>
          /\ TaggedWith(conn[c].transport, conn[c].options.targetOrigin)
          /\ \A p \in BagToSet(conn[c].transport.posted) :
                p.message \in ConnectionMessages(conn[c])
          /\ C22_SendUnchanged(conn[c].transport)
    /\ exposed.state # "none" =>
          /\ TaggedWith(exposed.transport, exposed.options.allowedOrigin)
          /\ \A p \in BagToSet(exposed.transport.posted) : ExposureMessage(p.message)
          /\ C22_SendUnchanged(exposed.transport)
          /\ \A d \in C22_Probes :
                TaggedWith(ChildWindowMessage(exposed, d, OtherOrigin).transport,
                           exposed.options.allowedOrigin)

\* a connection configured with the origin of the iframe posted its Request
\* with that origin; an exposure configured with "*" answered it with "*", not
\* with the origin of the host the Request came from, and the call resolved
C22_Witness ==
    /\ conn["A"].options.targetOrigin = ChildOrigin
    /\ Len(conn["A"].calls) = 1
    /\ conn["A"].calls[1].state = "resolved"
    /\ BagIn([message |-> createRequest(conn["A"].calls[1].id, "add", ArgsOf("add")),
              targetOrigin |-> ChildOrigin], conn["A"].transport.posted)
    /\ exposed.options.allowedOrigin = Wildcard
    /\ BagIn([message |-> createResponse(conn["A"].calls[1].id, Num(5)),
              targetOrigin |-> Wildcard], exposed.transport.posted)
\* a destroyed exposure is unchanged by any "message" event: nothing is
\* invoked, nothing is posted
C23_EventsIgnored ==
    exposed.state = "destroyed" =>
        \A d \in ChildInboundData, o \in ChildInboundOrigins :
            ChildWindowMessage(exposed, d, o) = exposed

\* the "message" events a destroyed exposure receives leave its invocations
\* and its posted messages as they were
C23_DeliveryIgnored ==
    ( /\ exposed.state = "destroyed"
      /\ lastEvent'.op = "message" /\ lastEvent'.to = "child" )
    => /\ exposed'.invoked = exposed.invoked
       /\ exposed'.running = exposed.running
       /\ exposed'.transport.posted = exposed.transport.posted

\* C23: after destroy() of an exposure a Request or HandshakeRequest that
\* arrives is ignored: no operation is invoked, and no Response, ErrorMessage
\* or HandshakeResponse is posted for it.
C23_DestroyedExposureSilent ==
    []C23_EventsIgnored /\ [][C23_DeliveryIgnored]_vars

\* an exposure answered a Request, was destroyed, and then received another
\* Request from the accepted origin: still one invocation, one posted message
C23_Witness ==
    /\ exposed.state = "destroyed"
    /\ lastEvent.op = "message" /\ lastEvent.to = "child"
    /\ lastEvent.type = "request"
    /\ Len(exposed.invoked) = 1
    /\ BagCardinality(exposed.transport.posted) = 1
    /\ exposed.running = EmptyBag
(* ----------------------- protocol.ts on its own ------------------------ *)

\* The values handed to isProtocolMessage: primitives, and objects with or
\* without a marker, a type and further fields.  Absent stands for a field
\* the object does not have.
Absent == "absent"
Field(name, v) == IF v = Absent THEN <<>> ELSE name :> v
ProbeMarkers == {Absent, IFC_BRAND, "wrong-brand", "__IFC__", ""}
ProbeTypes ==
    {Absent, "handshake-request", "handshake-response", "request", "response",
     "error", "bogus"}
ProbeIds == {Absent, "1", generateId(1)}
ProbePrimitives ==
    { JsNull, JsString("string"), JsString(IFC_BRAND),
      [jsPrimitive |-> "undefined"], [jsPrimitive |-> "number", value |-> 123],
      [jsPrimitive |-> "boolean", value |-> TRUE] }
ProbeObjects ==
    { Field("__ifc", m) @@ Field("type", t) @@ Field("id", i) :
        m \in ProbeMarkers, t \in ProbeTypes, i \in ProbeIds }
ProbeValues == ProbePrimitives \cup ProbeObjects

\* isProtocolMessage(value)
CallIsProtocolMessage(value) ==
    /\ lastEvent' = [op |-> "isProtocolMessage", value |-> value,
                     result |-> isProtocolMessage(value)]
    /\ UNCHANGED <<hostVars, exposed, exposedTwin>>

\* createHandshakeRequest(nonce)
CallCreateHandshakeRequest(nonce) ==
    /\ lastEvent' = [op |-> "createHandshakeRequest", args |-> <<nonce>>,
                     result |-> createHandshakeRequest(nonce)]
    /\ UNCHANGED <<hostVars, exposed, exposedTwin>>

\* createHandshakeResponse(nonce)
CallCreateHandshakeResponse(nonce) ==
    /\ lastEvent' = [op |-> "createHandshakeResponse", args |-> <<nonce>>,
                     result |-> createHandshakeResponse(nonce)]
    /\ UNCHANGED <<hostVars, exposed, exposedTwin>>

\* createRequest(id, method, args)
CallCreateRequest(id, method, args) ==
    /\ lastEvent' = [op |-> "createRequest", args |-> <<id, method, args>>,
                     result |-> createRequest(id, method, args)]
    /\ UNCHANGED <<hostVars, exposed, exposedTwin>>

\* createResponse(id, result)
CallCreateResponse(id, result) ==
    /\ lastEvent' = [op |-> "createResponse", args |-> <<id, result>>,
                     result |-> createResponse(id, result)]
    /\ UNCHANGED <<hostVars, exposed, exposedTwin>>

\* createError(id, error)
CallCreateError(id, error) ==
    /\ lastEvent' = [op |-> "createError", args |-> <<id, error>>,
                     result |-> createError(id, error)]
    /\ UNCHANGED <<hostVars, exposed, exposedTwin>>

BuildIds == {"1", "nonce-123", generateId(1)}
BuildArgs == {<<>>, ArgsOf("add"), ArgsOf("greet")}
BuildResults == Results \cup {JsUndefined}
BuildErrors == ErrorTexts \cup {"", NotExposedError("missing")}

NextProtocol ==
    \/ \E v \in ProbeValues : CallIsProtocolMessage(v)
    \/ \E n \in BuildIds : CallCreateHandshakeRequest(n)
    \/ \E n \in BuildIds : CallCreateHandshakeResponse(n)
    \/ \E i \in BuildIds, m \in RequestMethods, a \in BuildArgs : CallCreateRequest(i, m, a)
    \/ \E i \in BuildIds, r \in BuildResults : CallCreateResponse(i, r)
    \/ \E i \in BuildIds, e \in BuildErrors : CallCreateError(i, e)

\* the guard and the constructors of protocol.ts, called with any arguments
SpecProtocol == Init /\ [][NextProtocol]_vars

\* a value that is an object and not null, and its marker
IsObjectValue(v) == "jsPrimitive" \notin DOMAIN v
MarkerOf(v) == IF IsObjectValue(v) /\ "__ifc" \in DOMAIN v THEN v["__ifc"] ELSE Absent

\* C24: isProtocolMessage(value) is true exactly when value is a non-null
\* object whose marker equals the brand, whatever its other fields are.
C24_GuardIsMarkerTest ==
    lastEvent.op = "isProtocolMessage" =>
        /\ lastEvent.result =
              (IsObjectValue(lastEvent.value) /\ MarkerOf(lastEvent.value) = IFC_BRAND)
        /\ \A w \in ProbeValues :
              ( /\ IsObjectValue(w) = IsObjectValue(lastEvent.value)
                /\ MarkerOf(w) = MarkerOf(lastEvent.value) )
              => isProtocolMessage(w) = lastEvent.result

\* the guard accepted an object that has the brand and a type no message has
C24_Witness ==
    /\ lastEvent.op = "isProtocolMessage"
    /\ lastEvent.value = [__ifc |-> IFC_BRAND, type |-> "bogus"]
    /\ lastEvent.result
\* the fields and the type tag each constructor gives its message, in the
\* order of its parameters
WireShape(op) ==
    CASE op = "createHandshakeRequest" -> [type |-> "handshake-request", fields |-> <<"nonce">>]
      [] op = "createHandshakeResponse" -> [type |-> "handshake-response", fields |-> <<"nonce">>]
      [] op = "createRequest" -> [type |-> "request", fields |-> <<"id", "method", "args">>]
      [] op = "createResponse" -> [type |-> "response", fields |-> <<"id", "result">>]
      [] op = "createError" -> [type |-> "error", fields |-> <<"id", "error">>]

\* C25: each of the five constructors returns exactly its wire shape: the
\* marker, its type tag and its arguments unchanged under their field names,
\* and nothing else; every message built passes isProtocolMessage.
C25_ConstructorsFieldExact ==
    lastEvent.op \in {"createHandshakeRequest", "createHandshakeResponse",
                      "createRequest", "createResponse", "createError"} =>
        LET shape == WireShape(lastEvent.op)
            m == lastEvent.result
        IN  /\ DOMAIN m = {"__ifc", "type"} \cup {shape.fields[i] : i \in DOMAIN shape.fields}
            /\ m["__ifc"] = IFC_BRAND
            /\ m["type"] = shape.type
            /\ \A i \in DOMAIN shape.fields : m[shape.fields[i]] = lastEvent.args[i]
            /\ isProtocolMessage(m)

\* createError("1", "") built an error message with an empty text
C25_Witness ==
    /\ lastEvent.op = "createError"
    /\ lastEvent.args = <<"1", "">>
    /\ lastEvent.result = [__ifc |-> IFC_BRAND, type |-> "error", id |-> "1", error |-> ""]
(* --------------------- the functions and the classes ------------------- *)

\* an expose that accepts every origin
exposeAnyOrigin(api, options) == NewIframeExposed(api, [allowedOrigin |-> Wildcard])

\* expose(api, options): return new IframeExposed(api, options)
expose(api, options) == NewIframeExposed(api, options)

\* connectIframe(iframe, options): return IframeConnection.connect(iframe, options)
connectIframe(cs, contentWindow, options, nonce) ==
    ConnectExecutor(cs, contentWindow, options, nonce)

\* conn["A"] is connected with connectIframe and conn["B"] with
\* IframeConnection.connect, from the same iframe with the same options
ApisConnect(contentWindow, options) ==
    /\ NoExposure
    /\ \A c \in Conns : conn[c].connectState = "idle"
    /\ conn' = [c \in Conns |->
                    IF c = "A"
                    THEN connectIframe(conn[c], contentWindow, options,
                                       generateId(nextId + 1))
                    ELSE ConnectExecutor(conn[c], contentWindow, options,
                                         generateId(nextId + 1))]
    /\ nextId' = IF contentWindow THEN nextId + 1 ELSE nextId
    /\ lastEvent' = [op |-> "other"]
    /\ UNCHANGED <<active, exposed, exposedTwin, adapter>>

\* exposed is created with expose and exposedTwin with new IframeExposed,
\* from the same api with the same options
ApisExpose(api, options) ==
    /\ HostIdle
    /\ NoExposure
    /\ exposed' = expose(api, options)
    /\ exposedTwin' = NewIframeExposed(api, options)
    /\ lastEvent' = [op |-> "other"]
    /\ UNCHANGED hostVars

NextApis ==
    \/ \E w \in BOOLEAN, o \in ConnectOptionsSet : ApisConnect(w, o)
    \/ RunsLoad
    \/ RunsHandshakeTimeout
    \/ \E d \in InboundData, o \in InboundOrigins : RunsDeliver(d, o)
    \/ \E p \in Methods : RunsCall(p)
    \/ \E k \in 1..MaxCalls : RunsCallTimeout(k)
    \/ RunsDestroy
    \/ \E a \in ApiObjects, o \in ExposeOptionsSet : ApisExpose(a, o)
    \/ \E d \in ChildInboundData, o \in ChildInboundOrigins : RunsChildDeliver(d, o)
    \/ \E op \in BagToSet(exposed.running) : RunsSettle(op)
    \/ RunsDestroyExposed

\* the functional API and the class API side by side, given the same
\* operations, timer events and messages
SpecApis == InitRuns /\ [][NextApis]_vars

\* what a consumer and the other window see of a connection: the messages it
\* sent, how connect settled, how each call settled
ConnectionBehaviour(cs) ==
    [ posted |-> cs.transport.posted,
      connect |-> <<cs.connectState, cs.connectValue, cs.connectSettles>>,
      calls |-> [k \in 1..Len(cs.calls) |->
                    <<cs.calls[k].state, cs.calls[k].value, cs.calls[k].settles>>],
      order |-> cs.settleOrder ]

ScenarioExposeOptions == [allowedOrigin |-> ParentOrigin]
ScenarioConnectOptions ==
    [targetOrigin |-> ChildOrigin, handshakeTimeout |-> <<>>, callTimeout |-> <<>>]

NextScenario ==
    \/ Expose("LiteralApi", ScenarioExposeOptions)
    \/ Connect("A", TRUE, ScenarioConnectOptions)
    \/ Load("A")
    \/ HandshakeTimeout("A")
    \/ \E p \in LinkProps : LinkCall("A", p)
    \/ \E k \in 1..MaxCalls : CallTimeout("A", k)
    \/ \E op \in BagToSet(exposed.running) : Settle(op)
    \/ \E p \in BagToSet(conn["A"].transport.posted) : LinkToChild(p)
    \/ \E p \in BagToSet(exposed.transport.posted) : LinkToHost(p)

\* The iframe fires "load" once it has loaded, and the platform runs the
\* task of every posted message; nothing obliges a timer to fire or the
\* consumer to connect or call.
SpecScenario ==
    /\ Init
    /\ [][NextScenario]_vars
    /\ WF_vars(Load("A"))
    /\ WF_vars(\E p \in BagToSet(conn["A"].transport.posted) : LinkToChild(p))
    /\ WF_vars(\E p \in BagToSet(exposed.transport.posted) : LinkToHost(p))

\* connect was called while the exposure is in place and "load" is yet to fire
C27_Connecting ==
    /\ exposed.state = "active"
    /\ conn["A"].connectState = "pending"
    /\ conn["A"].loadCount = 0

\* call k, of add, is pending on the established connection
C27_Calling(k) ==
    /\ exposed.state = "active"
    /\ k <= Len(conn["A"].calls)
    /\ conn["A"].calls[k].method = "add"
    /\ conn["A"].calls[k].state = "pending"

\* call k resolved with 5, or its timer fired
C27_Called(k) ==
    /\ k <= Len(conn["A"].calls)
    /\ \/ /\ conn["A"].calls[k].state = "resolved"
          /\ conn["A"].calls[k].value = Num(5)
       \/ conn["A"].calls[k].timer = "fired"

\* C27: with the exposure accepting the host's origin and the connection
\* targeting the iframe's origin, a connect followed by "load" eventually
\* resolves unless the handshake timer fires first, and a call of add(2, 3)
\* made afterwards eventually resolves with 5 unless its timer fires first.
C27_EndToEnd ==
    /\ C27_Connecting ~>
          (conn["A"].connectState = "resolved" \/ conn["A"].handshakeTimer = "fired")
    /\ \A k \in 1..MaxCalls : C27_Calling(k) ~> C27_Called(k)

\* connect resolved by the handshake and add(2, 3) resolved with 5, no timer
\* having fired
C27_Witness ==
    /\ conn["A"].connectState = "resolved"
    /\ conn["A"].handshakeTimer = "cleared"
    /\ Len(conn["A"].calls) = 1
    /\ conn["A"].calls[1].method = "add"
    /\ conn["A"].calls[1].state = "resolved"
    /\ conn["A"].calls[1].value = Num(5)
    /\ conn["A"].calls[1].timer = "cleared"
\* the Requests a connection has handed to postMessage
RequestsPosted(cs) == BagWhere(cs.transport.posted, LAMBDA p : p.message.type = "request")

\* C28: a Request is sent and a PendingCall with its timer is created only
\* while the connection is established: never before the handshake has
\* completed and never after destroy() has been called on the connection.
C28_CallsOnlyWhileEstablished ==
    [][\A c \in Conns :
          ( \/ Len(conn'[c].calls) > Len(conn[c].calls)
            \/ Len(conn'[c].pendingCalls) > Len(conn[c].pendingCalls)
            \/ RequestsPosted(conn'[c]) # RequestsPosted(conn[c]) )
          => (conn[c].handshakeComplete /\ ~conn[c].destroyed)]_vars
\* Requests that are answered with an ErrorMessage: an operation that rejects
\* after a delay, one that throws a value that is no Error, a property that is
\* not a function, a name the api does not have
C29_FailingRequests ==
    {createRequest(generateId(2), m, ArgsOf(m)) : m \in {"fail", "oops", "version", "missing"}}

\* the exposure after it received the request from the host and answered it,
\* the operation it awaits, if any, having finished
C29_Answered(es, request) ==
    LET e1 == ChildWindowMessage(es, request, ParentOrigin)
        started == BagToSet(e1.running (-) es.running)
    IN  IF started = {} THEN e1
        ELSE OperationSettles(e1, CHOOSE op \in started : TRUE)

\* what a "message" event makes exposure es do: the messages it posts, the
\* operations it invokes and leaves awaited, and whether it goes on listening
C29_Effect(es, d, o) ==
    LET after == ChildWindowMessage(es, d, o) IN
    [ posted |-> after.transport.posted (-) es.transport.posted,
      invoked |-> SubSeq(after.invoked, Len(es.invoked) + 1, Len(after.invoked)),
      running |-> after.running (-) es.running,
      state |-> after.state,
      listening |-> after.transport.listening,
      callbacks |-> after.transport.callbacks ]

\* C29: a dispatcher that has answered a Request with an ErrorMessage (not
\* exposed, not a function, or a failure of the operation) stays active, and
\* answers every later Request and HandshakeRequest exactly as it would have
\* had it never received the failing request.
C29_ErrorsLeaveDispatcherIntact ==
    exposed.state = "active" =>
        \A f \in C29_FailingRequests :
            LET failed == C29_Answered(exposed, f)
                answer == failed.transport.posted (-) exposed.transport.posted
            IN  /\ BagCardinality(answer) = 1
                /\ \A p \in BagToSet(answer) :
                      p.message.type = "error" /\ p.message.id = f.id
                /\ failed.state = "active"
                /\ failed.transport.listening
                /\ failed.transport.callbacks = exposed.transport.callbacks
                /\ failed.running = exposed.running
                /\ \A d \in ChildInboundData :
                      C29_Effect(failed, d, ParentOrigin) =
                          C29_Effect(exposed, d, ParentOrigin)

\* an exposure answered fail with an ErrorMessage and then add with its
\* Response
C29_Witness ==
    /\ exposed.state = "active"
    /\ lastEvent.op = "message" /\ lastEvent.to = "child"
    /\ Len(exposed.invoked) = 2
    /\ exposed.invoked[1].method = "fail"
    /\ exposed.invoked[2].method = "add"
    /\ exposed.running = EmptyBag
    /\ BagIn([message |-> createError(exposed.invoked[1].id, "boom"),
              targetOrigin |-> exposed.transport.targetOrigin], exposed.transport.posted)
    /\ BagIn([message |-> createResponse(exposed.invoked[2].id, Num(5)),
              targetOrigin |-> exposed.transport.targetOrigin], exposed.transport.posted)
(* ------------------ two connections in one host window ----------------- *)

\* The host holds two connections; every "message" event of the window
\* reaches the listener of each.
InitPair ==
    /\ conn = [c \in Conns |-> IdleConn]
    /\ active = Conns
    /\ nextId = 0
    /\ exposed = NoExposed
    /\ exposedTwin = NoExposed
    /\ adapter = NoAdapter
    /\ lastEvent = [op |-> "init"]

\* "A" is the connection made first; both are given the same options
PairConnect(c, options) ==
    /\ c = "B" => conn["A"].connectState # "idle"
    /\ \A b \in Conns : conn[b].connectState = "idle" \/ conn[b].options = options
    /\ Connect(c, TRUE, options)

\* a call through either proxy, MaxCalls calls in all
PairCall(c, prop) ==
    /\ Len(conn["A"].calls) + Len(conn["B"].calls) < MaxCalls
    /\ Call(c, prop)

\* what the iframes send back: a HandshakeResponse with the nonce of a
\* connection, a Response or an ErrorMessage with the id of one of its calls
PairInbound ==
    {createHandshakeResponse(conn[c].nonce) : c \in {b \in Conns : conn[b].nonce # Undefined}}
    \cup UNION {{createResponse(conn[ck[1]].calls[ck[2]].id, Num(5)),
                 createError(conn[ck[1]].calls[ck[2]].id, "boom")} :
                    ck \in {x \in Conns \X (1..MaxCalls) : x[2] <= Len(conn[x[1]].calls)}}

NextPair ==
    \/ \E c \in Conns, o \in ConnectOptionsSet : PairConnect(c, o)
    \/ \E c \in Conns : Load(c)
    \/ \E d \in PairInbound, o \in InboundOrigins : Deliver(d, o)
    \/ \E c \in Conns, p \in Methods : PairCall(c, p)

\* two connections of one host window, their handshakes and their calls
SpecPair == InitPair /\ [][NextPair]_vars

\* C30: two connections in one host window that accept the same origin are
\* independent: their nonces differ, a HandshakeResponse with the nonce of
\* one never completes the connect of the other, and a Response or
\* ErrorMessage with the id of a call pending on one never settles or removes
\* a call pending on the other.
C30_ConnectionsIndependent ==
    \A a \in Conns : \A b \in Conns \ {a} :
        /\ conn[a].nonce # Undefined => conn[a].nonce # conn[b].nonce
        /\ \A i \in 1..Len(conn[a].pendingCalls) :
              ~MapHas(conn[b].pendingCalls, conn[a].pendingCalls[i].key)
        /\ conn[b].transport.listening =>
              \A o \in InboundOrigins :
                 /\ conn[a].nonce # Undefined =>
                       TransportHandleMessage(
                           conn[b], createHandshakeResponse(conn[a].nonce), o) = conn[b]
                 /\ \A i \in 1..Len(conn[a].pendingCalls) :
                       LET id == conn[a].pendingCalls[i].key IN
                       /\ TransportHandleMessage(conn[b], createResponse(id, Num(5)), o)
                             = conn[b]
                       /\ TransportHandleMessage(conn[b], createError(id, "boom"), o)
                             = conn[b]

\* both connections accept every origin and each has a call pending; the
\* window received the Response to the call of "A": that call resolved, the
\* call of "B" is still pending
C30_Witness ==
    /\ conn["A"].options.targetOrigin = Wildcard
    /\ conn["B"].options.targetOrigin = Wildcard
    /\ lastEvent.op = "message"
    /\ lastEvent.type = "response"
    /\ lastEvent.deliveredTo = Conns
    /\ Len(conn["A"].calls) = 1 /\ Len(conn["B"].calls) = 1
    /\ conn["A"].calls[1].state = "resolved"
    /\ conn["B"].calls[1].state = "pending"
    /\ MapHas(conn["B"].pendingCalls, conn["B"].calls[1].id)

(* ------------------- destroy() in every state (C31) -------------------- *)

\* the connections destroy() can be called on: connect() resolved with them
Handles == {c \in Conns : conn[c].instance}

EngineState(cs) ==
    CASE cs.connectState = "idle"     -> "none"
      [] cs.connectState = "pending"  -> "connecting"
      [] cs.connectState = "rejected" -> "failed"
      [] cs.connectState = "resolved" ->
            IF cs.transport.listening THEN "established" ELSE "destroyed"

EngineMoves ==
    { <<"none", "connecting">>, <<"none", "failed">>,
      <<"connecting", "established">>, <<"connecting", "failed">>,
      <<"established", "destroyed">> }

C32_StateShape ==
    \A c \in Conns :
        LET cs == conn[c]
            state == EngineState(cs)
        IN  /\ cs.instance <=> state \in {"established", "destroyed"}
            /\ cs.instance <=> cs.connectValue = Str("IframeConnection")
            /\ cs.instance => cs.handshakeComplete
            /\ state = "destroyed" <=> cs.destroyed
            /\ state = "failed" =>
                    /\ ~cs.handshakeComplete
                    /\ ~cs.transport.listening
                    /\ cs.transport.callbacks = <<>>
            /\ state = "destroyed" => cs.transport.callbacks = <<>>
            /\ cs.connectSettles <= 1

\* C32: the caller engine only moves connecting -> established -> destroyed
\* or connecting -> failed.  failed and destroyed are never left, a failed
\* engine never gets a connection handle, and a handle exists only for an
\* engine whose handshake completed.
C32_EngineStateMachine ==
    /\ []C32_StateShape
    /\ [][\A c \in Conns :
            \/ EngineState(conn'[c]) = EngineState(conn[c])
            \/ <<EngineState(conn[c]), EngineState(conn'[c])>> \in EngineMoves]_vars

\* an engine that was established and then destroyed, and is called again
C32_Witness ==
    /\ EngineState(conn["A"]) = "destroyed"
    /\ conn["A"].loadCount = 1
    /\ Len(conn["A"].calls) = 2
    /\ conn["A"].calls[1].settledBy = [by |-> "destroy"]
    /\ conn["A"].calls[2].state = "pending"

(* ----------------------- timers and the pending map (C33) -------------- *)

\* the ids that are keys of pendingCalls
PendingIds(cs) == {cs.pendingCalls[i].key : i \in 1..Len(cs.pendingCalls)}

C33_TimersMatchPending ==
    \A c \in Conns :
        LET cs == conn[c] IN
        /\ \A k \in 1..Len(cs.calls) :
                /\ cs.calls[k].timer = "armed" <=> cs.calls[k].id \in PendingIds(cs)
                /\ cs.calls[k].timer = "armed" <=> cs.calls[k].state = "pending"
                /\ cs.calls[k].timer \in {"armed", "cleared", "fired"}
                /\ cs.calls[k].timer = "fired" <=> cs.calls[k].settledBy = [by |-> "timer"]
        /\ PendingIds(cs) =
                {cs.calls[k].id : k \in {j \in 1..Len(cs.calls) : cs.calls[j].state = "pending"}}
        /\ Cardinality(PendingIds(cs)) = Len(cs.pendingCalls)
        /\ \A i \in 1..Len(cs.pendingCalls) :
                cs.calls[cs.pendingCalls[i].value.timer].id = cs.pendingCalls[i].key
        /\ cs.handshakeTimer = "armed" => cs.connectState = "pending"
        /\ cs.connectState = "pending" => cs.handshakeTimer = "armed"

\* a timer that was cancelled or has fired stays as it is
C33_TimerEndsOnce ==
    \A c \in Conns :
        /\ conn[c].handshakeTimer \in {"cleared", "fired"} =>
                conn'[c].handshakeTimer = conn[c].handshakeTimer
        /\ \A k \in 1..Len(conn[c].calls) :
                conn[c].calls[k].timer \in {"cleared", "fired"} =>
                    conn'[c].calls[k].timer = conn[c].calls[k].timer

\* C33: in every reachable state a call's timer is armed exactly when its
\* id is a key of pendingCalls, and the keys of pendingCalls are exactly the
\* ids of the calls made and not yet settled; the handshake timer is armed
\* only while connect() is pending.  A timer that was cancelled or has
\* fired never changes again, so each timer ends once and none stays armed
\* for a settled call.
C33_TimerDiscipline ==
    /\ []C33_TimersMatchPending
    /\ [][C33_TimerEndsOnce]_vars

\* one call answered (timer cancelled), one timed out (timer fired), after
\* a handshake that cancelled the handshake timer
C33_Witness ==
    /\ conn["A"].handshakeTimer = "cleared"
    /\ Len(conn["A"].calls) = 2
    /\ conn["A"].calls[1].timer = "cleared"
    /\ conn["A"].calls[1].settledBy.by = "message"
    /\ conn["A"].calls[2].timer = "fired"
    /\ conn["A"].pendingCalls = <<>>
    /\ ~conn["A"].destroyed

(* ------------------- the engine with timers that fire ------------------ *)

\* setTimeout: a timer that stays armed fires
TimersFire ==
    /\ \A c \in Conns : WF_vars(HandshakeTimeout(c))
    /\ \A c \in Conns, k \in 1..MaxCalls : WF_vars(CallTimeout(c, k))

SpecTimers == Spec /\ TimersFire

(* ------------------------- connect() settles (C34) --------------------- *)

ConnectSettled(cs) == cs.connectState \in {"resolved", "rejected"}

C34_SettledAsTheCodeSays ==
    \A c \in Conns :
        LET cs == conn[c] IN
        /\ cs.connectSettles <= 1
        /\ cs.connectSettles = 1 <=> ConnectSettled(cs)
        /\ cs.contentWindow = "null" =>
                /\ cs.connectState = "rejected"
                /\ cs.connectValue = NewError(ContentWindowNullError)
                /\ cs.handshakeTimer = "none"
        /\ cs.connectState = "resolved" =>
                /\ cs.handshakeComplete
                /\ cs.handshakeTimer = "cleared"
                /\ cs.contentWindow = "window"
        /\ (cs.connectState = "rejected" /\ cs.contentWindow = "window") =>
                /\ cs.handshakeTimer = "fired"
                /\ ~cs.handshakeComplete
                /\ cs.connectValue = NewError(HandshakeTimeoutError(cs.handshakeTimeout))

C34_SettledForGood ==
    \A c \in Conns :
        ConnectSettled(conn[c]) =>
            /\ conn'[c].connectState = conn[c].connectState
            /\ conn'[c].connectValue = conn[c].connectValue
            /\ conn'[c].connectSettles = conn[c].connectSettles

\* C34: every connect() settles, once.  With a null contentWindow it is
\* rejected within the call; otherwise it stays pending until the matching
\* HandshakeResponse resolves it or the handshake timer rejects it, and,
\* timers firing, one of the two happens.  Once settled, its outcome never
\* changes and neither resolve nor reject runs again.
C34_ConnectSettlesOnce ==
    /\ []C34_SettledAsTheCodeSays
    /\ [][C34_SettledForGood]_vars
    /\ \A c \in Conns :
            (conn[c].connectState = "pending") ~> ConnectSettled(conn[c])

\* a connect() whose HandshakeRequest went out and that the timer rejected
C34_Witness ==
    /\ conn["A"].connectState = "rejected"
    /\ conn["A"].contentWindow = "window"
    /\ conn["A"].loadCount = 1
    /\ conn["A"].handshakeTimer = "fired"
    /\ conn["A"].connectSettles = 1

(* ---------------------------- calls settle (C35) ----------------------- *)

CallPending(c, k) ==
    k <= Len(conn[c].calls) /\ conn[c].calls[k].state = "pending"

CallSettled(c, k) ==
    k <= Len(conn[c].calls) /\ conn[c].calls[k].state \in {"resolved", "rejected"}

\* C35: every call settles, whatever arrives from the callee (an answer, a
\* wrong answer, nothing) and whether or not destroy() is called while it
\* is pending or before it is made, provided an armed timer fires: whenever
\* the k-th call of a connection is pending, a later state has the k-th
\* call of every connection that made one settled.
C35_CallsSettle ==
    \A k \in 1..MaxCalls :
        (\E c \in Conns : CallPending(c, k))
            ~> (\A c \in Conns : k <= Len(conn[c].calls) => CallSettled(c, k))

\* a call that destroy() rejected and a call made afterwards that its timer
\* rejected, no answer having arrived
C35_Witness ==
    /\ conn["A"].destroyed
    /\ Len(conn["A"].calls) = 2
    /\ conn["A"].calls[1].settledBy = [by |-> "destroy"]
    /\ conn["A"].calls[2].settledBy = [by |-> "timer"]
    /\ conn["A"].calls[2].state = "rejected"

(* ------------------- what settling a call leaves alone (C36) ----------- *)

\* the Responses and ErrorMessages that can arrive with the given id
AnswersWith(id) ==
    {createResponse(id, r) : r \in Results} \cup {createError(id, e) : e \in ErrorTexts}

\* the connection after call k was settled: by an answer with its id from
\* either origin, or by its timer
SettlementsOf(cs, k) ==
    {ConnectionHandleMessage(cs, m) : m \in AnswersWith(cs.calls[k].id)}
    \cup {TransportHandleMessage(cs, m, o) :
                m \in AnswersWith(cs.calls[k].id), o \in InboundOrigins}
    \cup {CallTimerCallback(cs, k)}

\* every call but k, its map entry and its timer are in after as in cs
OthersUntouched(cs, after, k) ==
    /\ Len(after.calls) = Len(cs.calls)
    /\ \A j \in 1..Len(cs.calls) : j # k => after.calls[j] = cs.calls[j]
    /\ SelectSeq(after.pendingCalls, LAMBDA e : e.key # cs.calls[k].id)
            = SelectSeq(cs.pendingCalls, LAMBDA e : e.key # cs.calls[k].id)

\* C36: a Response or ErrorMessage whose id is not a key of pendingCalls
\* (never issued, already answered, timed out, rejected by destroy) leaves
\* the connection exactly as it was, whether the connection's handler or
\* the window listener is given it; and settling one pending call, by a
\* Response, an ErrorMessage or its timer, leaves every other call, its
\* entry in pendingCalls and its timer as they were.
C36_SettlingFrame ==
    \A c \in Handles :
        LET cs == conn[c] IN
        /\ \A id \in WireIds \ PendingIds(cs) : \A m \in AnswersWith(id) :
                /\ ConnectionHandleMessage(cs, m) = cs
                /\ \A o \in InboundOrigins : TransportHandleMessage(cs, m, o) = cs
        /\ \A k \in 1..Len(cs.calls) :
                cs.calls[k].state = "pending" =>
                    \A after \in SettlementsOf(cs, k) : OthersUntouched(cs, after, k)

\* a late Response for a call that timed out has just been handled while
\* another call is pending, its entry in the map and its timer armed
C36_Witness ==
    /\ lastEvent.op = "message"
    /\ lastEvent.type = "response"
    /\ "A" \in lastEvent.deliveredTo
    /\ lastEvent.names = [kind |-> "settled call", conn |-> "A", call |-> 1]
    /\ conn["A"].calls[1].settledBy = [by |-> "timer"]
    /\ Len(conn["A"].calls) = 2
    /\ conn["A"].calls[2].state = "pending"
    /\ conn["A"].calls[2].timer = "armed"
    /\ MapHas(conn["A"].pendingCalls, conn["A"].calls[2].id)

(* ------------------ when the HandshakeRequest goes out (C37) ----------- *)

HandshakeRequestsPosted(cs) ==
    BagWhere(cs.transport.posted, LAMBDA p : p.message.type = "handshake-request")

\* C37: a connection posts a HandshakeRequest only while its engine is
\* connecting: once connect() was rejected by the handshake timer, or the
\* engine is established or destroyed, a load event of the iframe posts
\* nothing.
C37_HandshakeRequestOnlyWhileConnecting ==
    [][\A c \in Conns :
          HandshakeRequestsPosted(conn'[c]) # HandshakeRequestsPosted(conn[c])
          => EngineState(conn[c]) = "connecting"]_vars

(* --------------- connect() to an iframe already loaded (C38) ----------- *)

\* The pages of the usage example, where nothing obliges "load" to fire:
\* an iframe that finished loading before connect() fires no further load
\* event.  An armed handshake timer fires and the platform runs the task of
\* every posted message.
SpecLoaded ==
    /\ Init
    /\ [][NextScenario]_vars
    /\ WF_vars(HandshakeTimeout("A"))
    /\ WF_vars(\E p \in BagToSet(conn["A"].transport.posted) : LinkToChild(p))
    /\ WF_vars(\E p \in BagToSet(exposed.transport.posted) : LinkToHost(p))

\* no "load" has fired since connect() registered its listener
NoLoadSinceConnect == conn["A"].loadCount = 0

C38_NothingSentBeforeLoad ==
    NoLoadSinceConnect =>
        /\ conn["A"].transport.posted = EmptyBag
        /\ exposed.handled = 0
        /\ exposed.transport.posted = EmptyBag
        /\ conn["A"].connectState # "resolved"

C38_RejectedByTimeout ==
    /\ conn["A"].connectState = "rejected"
    /\ conn["A"].connectValue =
            NewError(HandshakeTimeoutError(conn["A"].handshakeTimeout))

\* C38: the HandshakeRequest is posted only by the "load" listener that
\* connect() registers.  While no load event has fired since connect(),
\* the connection has posted nothing, the exposure has received nothing
\* and connect() is not resolved; and in a run where no load event ever
\* fires after connect(), connect() ends rejected by the handshake timer,
\* an active exposure notwithstanding.
C38_NoLoadNoHandshake ==
    /\ []C38_NothingSentBeforeLoad
    /\ ([]NoLoadSinceConnect) =>
            ((conn["A"].connectState = "pending") ~> C38_RejectedByTimeout)

\* connect() was rejected by the timer while the exposure was active and
\* no load event fired
C38_Witness ==
    /\ exposed.state = "active"
    /\ NoLoadSinceConnect
    /\ conn["A"].loadListener
    /\ C38_RejectedByTimeout
    /\ conn["A"].handshakeTimer = "fired"
    /\ conn["A"].transport.posted = EmptyBag

(* ------------------ a destroyed exposure and its answers (C39) --------- *)

\* C39: once destroy() has been called on an exposure it posts no message
\* at all, not even the Response or ErrorMessage of a Request it received
\* before destroy() and whose operation settles afterwards.
C39_DestroyedExposurePostsNothing ==
    [][exposed.state = "destroyed" =>
            exposed'.transport.posted = exposed.transport.posted]_vars

(* --------------------- requests handled concurrently (C40) ------------- *)

\* the message a suspended dispatch posts when its operation settles
AnswerOf(op) ==
    IF op.outcome.kind = "return"
    THEN createResponse(op.id, op.outcome.value)
    ELSE createError(op.id, ErrorMessageOf(op.outcome.value))

\* the Requests that name a function the api object owns
CallableRequests ==
    {d \in ChildInboundData :
        /\ isProtocolMessage(d)
        /\ Get(d, "type") = "request"
        /\ HasOwnProperty(ApiObject(exposed.api), d.method)
        /\ GetProperty(ApiObject(exposed.api), d.method).typeof = "function"}

\* a Request is dispatched at once, however many operations are suspended:
\* its function is called in the step that handles it and the suspended
\* operations stay suspended
C40_DispatchedAtOnce ==
    \A d \in CallableRequests, o \in ChildInboundOrigins :
        Delivered(exposed, d, o) =>
            LET after == ChildWindowMessage(exposed, d, o)
                fn == GetProperty(ApiObject(exposed.api), d.method)
                op == [id |-> d.id, outcome |-> Apply(fn, d.args)]
            IN  /\ after.invoked =
                        Append(exposed.invoked,
                               [id |-> d.id, method |-> d.method, args |-> d.args,
                                this |-> exposed.api])
                /\ IF fn.latency = "task"
                   THEN /\ after.running = exposed.running (+) SetToBag({op})
                        /\ after.transport.posted = exposed.transport.posted
                   ELSE /\ after.running = exposed.running
                        /\ after.transport.posted =
                                exposed.transport.posted (+) PostOf(exposed, AnswerOf(op))

\* any suspended operation may settle next, and its dispatch then posts
\* one message, with its own id and its own outcome; the others stay
\* suspended
C40_AnyOrderOwnAnswer ==
    \A op \in BagToSet(exposed.running) :
        LET after == OperationSettles(exposed, op) IN
        /\ after.transport.posted = exposed.transport.posted (+) PostOf(exposed, AnswerOf(op))
        /\ after.running = exposed.running (-) SetToBag({op})
        /\ after.invoked = exposed.invoked

\* each suspended operation is the call of some Request handled, with that
\* Request's id, method and arguments; each Response or ErrorMessage posted
\* is the answer to some Request handled
C40_AnswersBelongToRequests ==
    /\ \A op \in BagToSet(exposed.running) :
            \E i \in 1..Len(exposed.invoked) :
                /\ exposed.invoked[i].id = op.id
                /\ op.outcome =
                        Apply(GetProperty(ApiObject(exposed.api), exposed.invoked[i].method),
                              exposed.invoked[i].args)
    /\ \A p \in BagToSet(exposed.transport.posted) :
            p.message.type \in {"response", "error"} =>
                \E r \in BagToSet(exposed.requests) :
                    p.message = AnswerTo(r.id, r.method)

\* C40: the dispatcher does not serialise Requests.  While operations are
\* awaited, a further Request is dispatched in the step that handles it;
\* the awaited operations may settle in any order; and every Response or
\* ErrorMessage carries the id and the outcome of the Request whose
\* operation produced it, never those of another Request in flight.
C40_ConcurrentDispatch ==
    /\ C40_DispatchedAtOnce
    /\ C40_AnyOrderOwnAnswer
    /\ C40_AnswersBelongToRequests

\* slow was requested under id-1 and fail under id-2 while slow was awaited;
\* fail has settled first and its ErrorMessage is out, slow is still awaited
C40_Witness ==
    /\ exposed.state = "active"
    /\ Len(exposed.invoked) = 2
    /\ exposed.invoked[1].method = "slow" /\ exposed.invoked[1].id = generateId(1)
    /\ exposed.invoked[2].method = "fail" /\ exposed.invoked[2].id = generateId(2)
    /\ exposed.running =
            SetToBag({[id |-> generateId(1), outcome |-> Apply(Fn("slow", "task"), <<>>)]})
    /\ exposed.transport.posted = PostOf(exposed, createError(generateId(2), "boom"))
====
